---- MODULE Spec2Model ----
(***************************************************************************)
(* Card-Scanning-App: the Result Gate (src/src/app/api/secure-results/     *)
(* route.js), a server-side store that holds a scan payload in             *)
(* pendingResults until a voice verification moves it to verifiedResults.  *)
(*                                                                         *)
(* Each HTTP handler is synchronous after its first await, so one handler  *)
(* run is one atomic action.  Date.now() has millisecond resolution and a  *)
(* handler runs in far less: the clock `now` advances by its own action    *)
(* and several handler runs may read the same value.  A handler may also   *)
(* run at the instant the sweep timer is due, before the timer callback.   *)
(*                                                                         *)
(* The second part models one capture run of a card side:                  *)
(* captureAndSendFrames (src/src/app/hooks/captureBackSide.js) for the     *)
(* back, and the two copies of captureAndSendFramesFront in the            *)
(* repository (src/unnamed/part_002, and the older src/unnamed/part_003)   *)
(* for the front.  JavaScript runs a callback to its next await without    *)
(* interruption, so each timer callback and each continuation of an await  *)
(* is one atomic action.  The gate and the capture run share no state:     *)
(* Spec explores the gate with the capture run at rest, CaptureSpec the    *)
(* capture run with the gate at rest.                                      *)
(***************************************************************************)
EXTENDS Integers, Sequences, FiniteSets, TLC

VARIABLES
    now,             \* Date.now(), in ms since the module was loaded
    nextSweep,       \* due time of the setInterval(cleanupExpiredResults) timer
    pendingResults,  \* Map resultId -> entry, in insertion order
    verifiedResults, \* Map resultId -> entry, in insertion order
    resp,            \* the request and response of the handler that ran last
    calls,           \* how many handler runs there were
    lastRelease,     \* history: the result released last, the entry and the body
                     \* of its first release, and how often it was released
    \* one capture run
    side,            \* which function runs: "back", "front" or "frontLegacy"
    pc,              \* where the async function is before the polling loop
    flash,           \* the torch (and the zoom that goes with it) was turned on
                     \* by enableFlashlight and not yet off by disableFlashlight
    isScreen,        \* the screen detection answered is_screen: true
    scanFrameCaptured, \* the frame that is sent for classification was captured
    stopRequested,   \* stopRequestedRef.current
    videoAvailable,  \* videoRef.current and canvasRef.current are set
    clock,           \* Date.now(), in ms since the polling loop started
    nextTick,        \* due time of setInterval(processFrame, ...)
    frameNumber,
    timeoutId,       \* the timeout timer is set (not null)
    captureIntervalRef, \* the interval timer is set (not null)
    isComplete,
    hasReceivedSuccess,
    maxFramesReachedTime,
    lastApiResponse,
    successfulFramesCount,
    inFlight,        \* sendFrameToAPI calls that have not returned yet
    settled,         \* the promise the function returned
    currentPhase,    \* what setCurrentPhase was called with last
    errorMessage,    \* what setErrorMessage was called with last
    isProcessing,    \* what setIsProcessing was called with last
    phaseCalls,      \* how often the run called setCurrentPhase
    \* the caller of the run in page.js
    callerOutcome,   \* what the caller did when its await returned
    posted,          \* the body of the POST to /api/secure-results
    \* the scan session of page.js
    sessionIdState,  \* the state sessionId, "" before a session is started
    attemptCount,
    maxAttemptsReached,
    currentOperation,
    fakeCardDetectedPhase, \* "front", "back" or "none" (null)
    pagePhase,       \* the state currentPhase of the page
    detectionActive,
    stopRequestedRef,
    backSuccessReceivedRef,
    countdown,       \* the closure startCountdown will call, or NoCountdown
    runs,            \* the closures awaiting a capture run, oldest first
    tryAgainTimer,   \* the 100 ms timer of handleTryAgain is set
    detectionTimeoutRef, \* the detection timeout is set (not null)
    reports,         \* the calls of reportFailure, in order
    scans,           \* how many scans were started
    sessions,        \* how many session ids were made
    counted,         \* history: the session id and the attemptCount right
                     \* after the last failure was counted below the
                     \* ceiling, until a scan is started or the count reset
    \* one call of initializeCamera
    copy,            \* which copy of CameraUtils runs: "current" or "legacy"
    testMode,        \* the constant TEST_MODE of the build
    devices,         \* the video inputs enumerateDevices returns, in order
    scanSide,        \* the argument scanSide
    camPc,           \* where the async function is
    bestCamera,      \* what findBestCameraForScan returned
    opens,           \* the getUserMedia calls for the capture stream, in order
    thrown,          \* the message of the error the caller gets, "" for none
    notified,        \* the codes onPermissionDenied was called with, in order
    \* the bridge interceptor
    bridgeInjected,  \* window.webkit.messageHandlers.ScanBridge.postMessage exists
    installed,
    watcherTimer,    \* the 200 ms watcher is set (not null)
    voicePending,    \* window.__VOICE_VERIFICATION_PENDING__: "undefined", "true", "false"
    pendingBridgePayload,
    native,          \* the messages the native postMessage was called with, in order
    posts,           \* how many messages the page posted
    \* the capture lock of CameraUtils
    isCapturing,
    frameBlobs,      \* canvas.toBlob calls of captureFrameInternal in flight
    croppedBlobs,    \* canvas.toBlob calls of captureCroppedFrame in flight
    waiting,         \* callers of captureFrame waiting for the lock
    captures,        \* how many captures were requested
    \* the voice recorder
    recInFlight,     \* the calls of startRecording awaiting getUserMedia: the
                     \* argument currentRetry of each, oldest first
    retryTimers,     \* the retry timers that are set, oldest first
    recClock,        \* the time in ms
    isRetrying,
    retryAttempt,
    isRecording,
    recError,        \* what setError was called with last: "" or the kind of message
    clicks,          \* how often the record button was pressed
    lastFailed,      \* history: currentRetry of the call that failed last with
                     \* an audio-source conflict, -1 for none
    \* the release of a scan
    verifyPc,        \* where the page is between the back-side result and the release
    verifyPhase,     \* what setCurrentPhase was called with last
    secureResultId,
    scanStatus       \* window.scanStatus

gateVars == <<now, nextSweep, pendingResults, verifiedResults, resp, calls, lastRelease>>

captureVars ==
    <<side, pc, flash, isScreen, scanFrameCaptured, stopRequested,
      videoAvailable, clock, nextTick, frameNumber, timeoutId, captureIntervalRef, isComplete,
      hasReceivedSuccess, maxFramesReachedTime, lastApiResponse,
      successfulFramesCount, inFlight, settled, currentPhase, errorMessage,
      isProcessing, phaseCalls, callerOutcome, posted>>

sessionVars ==
    <<sessionIdState, attemptCount, maxAttemptsReached, currentOperation,
      fakeCardDetectedPhase, pagePhase, detectionActive, stopRequestedRef,
      backSuccessReceivedRef, countdown, runs, tryAgainTimer, detectionTimeoutRef,
      reports, scans, sessions, counted>>

cameraVars ==
    <<copy, testMode, devices, scanSide, camPc, bestCamera, opens, thrown, notified>>

bridgeVars ==
    <<bridgeInjected, installed, watcherTimer, voicePending, pendingBridgePayload,
      native, posts>>

lockVars == <<isCapturing, frameBlobs, croppedBlobs, waiting, captures>>

recVars ==
    <<recInFlight, retryTimers, recClock, isRetrying, retryAttempt, isRecording,
      recError, clicks, lastFailed>>

verifyVars == <<verifyPc, verifyPhase, secureResultId, scanStatus>>

auxVars == <<bridgeVars, lockVars, recVars, verifyVars>>

notBridgeVars ==
    <<gateVars, captureVars, sessionVars, cameraVars, lockVars, recVars, verifyVars>>

notLockVars ==
    <<gateVars, captureVars, sessionVars, cameraVars, bridgeVars, recVars, verifyVars>>

notRecVars ==
    <<gateVars, captureVars, sessionVars, cameraVars, bridgeVars, lockVars, verifyVars>>

notVerifyVars == <<captureVars, sessionVars, cameraVars, bridgeVars, lockVars, recVars>>

vars == <<gateVars, captureVars, sessionVars, cameraVars, auxVars>>

----------------------------------------------------------------------------
(* Program constants *)

\* route.js:19  const fiveMinutesAgo = Date.now() - 5 * 60 * 1000
FiveMinutes == 300000
\* route.js:37  setInterval(cleanupExpiredResults, 60000)
SweepInterval == 60000

\* captureBackSide.js:31  const maxFrames = 8
MaxFrames == 8
\* captureBackSide.js:32  const requiredBackSideFeatures = 2
RequiredBackSideFeatures == 2
\* captureBackSide.js:395  bufferedFrames >= 4
MinBufferedFrames == 4
\* captureBackSide.js:430  Date.now() - maxFramesReachedTime > 3000
GraceMs == 3000
\* captureBackSide.js:485, part_002:515  setInterval(processFrame, 800)
PollIntervalMs == 800
\* captureBackSide.js:539, part_002:568  setTimeout(..., 30000)
TimeoutMs == 30000
\* part_003:437  setInterval(processFrame, 1000)
LegacyPollIntervalMs == 1000
\* part_003:478  setTimeout(..., 15000)
LegacyTimeoutMs == 15000
\* captureBackSide.js:178  let maxFramesReachedTime = null (a time is never 0)
NoTime == 0

(* Bounds of the model *)

\* sendFrameToAPI calls outstanding at once
MaxInFlight == 2

\* minutes of wall-clock time explored
MaxMinutes == 6
\* handler runs in one behaviour
MaxCalls == 5
\* callers send no request during minutes 1..QuietMinutes
QuietMinutes == 4
\* distinct resultIds callers hold at one time (stored, or released to them)
MaxIds == 2
\* the release counter of lastRelease saturates here
MaxReleases == 2

\* scans started in one exploration of the page
MaxScans == 6

\* session ids made in one exploration of the page
MaxSessions == 2

\* capture runs that have not settled yet
MaxRuns == 2

\* page.js:24
MAX_ATTEMPTS == 5

\* video inputs of the device
MaxDevices == 3

----------------------------------------------------------------------------
(* Inputs *)

SessionIds == {"s1", "s2"}
MerchantIds == {"m1"}
VerificationIds == {"v1", "v2"}

\* a scan payload without any field the GET response also sets
PlainPayload == [encrypted_data |-> "enc1", score |-> 9]
\* a classification response as page.js submits it: it carries its own status
StatusPayload == [status |-> "success", complete_scan |-> TRUE, score |-> 8]
Payloads == {PlainPayload, StatusPayload}

\* a missing or empty string parameter (falsy in JavaScript)
NoString == ""
\* a missing resultId parameter
NoId == <<>>
\* a missing or null scanData
NoScanData == <<>>
\* a resultId POST never returned
UnknownId == <<"zz", 0>>

\* `result_${sessionId}_${Date.now()}`
ResultId(sessionId, t) == <<sessionId, t>>

----------------------------------------------------------------------------
(* JavaScript Map, kept as the sequence of its [key, val] pairs in         *)
(* insertion order.                                                        *)

MapKeys(m) == {m[i].key : i \in 1..Len(m)}

MapHas(m, k) == k \in MapKeys(m)

\* Map.prototype.get of a key the map holds
MapGet(m, k) == m[CHOOSE i \in 1..Len(m) : m[i].key = k].val

\* Map.prototype.set: an existing key keeps its place, a new key goes last
MapSet(m, k, v) ==
    IF MapHas(m, k)
    THEN [i \in 1..Len(m) |-> IF m[i].key = k THEN [key |-> k, val |-> v] ELSE m[i]]
    ELSE Append(m, [key |-> k, val |-> v])

\* Map.prototype.delete
MapDelete(m, k) == SelectSeq(m, LAMBDA e : e.key # k)

\* { ...a, ...b }: the fields of b override those of a
Merge(a, b) ==
    [k \in (DOMAIN a) \cup (DOMAIN b) |-> IF k \in DOMAIN b THEN b[k] ELSE a[k]]

----------------------------------------------------------------------------
(* cleanupExpiredResults *)

\* mutant: the comparison is inverted
IsExpiredInverted(stamp, t) == stamp > t - FiveMinutes

\* result.createdAt < fiveMinutesAgo, result.verifiedAt < fiveMinutesAgo
IsExpired(stamp, t) == stamp < t - FiveMinutes

CleanupPending(m, t) == SelectSeq(m, LAMBDA e : ~IsExpired(e.val.createdAt, t))

\* a cleanup that never removes a verified entry
CleanupVerifiedKeepsAll(m, t) == m

CleanupVerified(m, t) == SelectSeq(m, LAMBDA e : ~IsExpired(e.val.verifiedAt, t))

----------------------------------------------------------------------------
(* Responses: NextResponse.json(body, { status: code }) *)

\* found: the foundResultId of a GET, NoId for every other response
Response(op, req, code, body, found) ==
    [op |-> op, req |-> req, code |-> code, body |-> body, found |-> found]

\* no payload was released yet, or the result released last was discarded
NoRelease == [key |-> NoId, entry |-> <<>>, body |-> <<>>, count |-> 0]

\* the last step was the clock or the timer, not a handler
NoResponse == Response("none", <<>>, 0, <<>>, NoId)

\* let lastApiResponse = null
NoApiResponse == <<>>

\* the promise is pending, was resolved with value, or rejected with error
\* no request was sent to the Result Gate
NoPost == <<>>

Pending == [state |-> "pending", value |-> NoApiResponse, error |-> ""]

\* the state before captureAndSendFrames / captureAndSendFramesFront is called
CaptureAtRest(s) ==
    /\ side = s
    /\ pc = "idle"
    /\ flash = FALSE
    /\ isScreen = FALSE
    /\ scanFrameCaptured = FALSE
    /\ stopRequested = FALSE
    /\ videoAvailable = TRUE
    /\ clock = 0
    /\ nextTick = 0
    /\ frameNumber = 0
    /\ timeoutId = FALSE
    /\ captureIntervalRef = FALSE
    /\ isComplete = FALSE
    /\ hasReceivedSuccess = FALSE
    /\ maxFramesReachedTime = NoTime
    /\ lastApiResponse = NoApiResponse
    /\ successfulFramesCount = 0
    /\ inFlight = 0
    /\ settled = Pending
    /\ currentPhase = "countdown"
    /\ errorMessage = ""
    /\ isProcessing = FALSE
    /\ phaseCalls = 0
    /\ callerOutcome = "awaiting"
    /\ posted = NoPost

\* no session: useState("")
NoSession == ""

\* no countdown is running
NoCountdown == <<>>

\* no counted failure is waiting for its retry
NoCount == <<>>

\* the id startCardScanning makes for the n-th new session
\* (`session_${Date.now()}`)
SessionIdOf(n) == IF n = 1 THEN "session_1" ELSE IF n = 2 THEN "session_2" ELSE "session_3"

\* authData.merchantId of the authenticated page
MerchantId == "m1"

\* the state of the page before the first scan
SessionAtRest ==
    /\ sessionIdState = NoSession
    /\ attemptCount = 0
    /\ maxAttemptsReached = FALSE
    /\ currentOperation = ""
    /\ fakeCardDetectedPhase = "none"
    /\ pagePhase = "idle"
    /\ detectionActive = FALSE
    /\ stopRequestedRef = FALSE
    /\ backSuccessReceivedRef = FALSE
    /\ countdown = NoCountdown
    /\ runs = <<>>
    /\ tryAgainTimer = FALSE
    /\ detectionTimeoutRef = FALSE
    /\ reports = <<>>
    /\ scans = 0
    /\ sessions = 0
    /\ counted = NoCount

\* a device has no deviceId; deviceIds are the positions in devices
NoDeviceId == 0

\* what findBestCameraForScan returns
Camera(deviceId, hasTorch, label, error) ==
    [deviceId |-> deviceId, hasTorch |-> hasTorch, label |-> label, error |-> error]

\* before findBestCameraForScan has returned
NoCamera == Camera(NoDeviceId, FALSE, "", "")

\* initializeCamera was not called: the environment does not matter
CameraAtRest ==
    /\ copy = "current"
    /\ testMode = TRUE
    /\ devices = <<>>
    /\ scanSide = "back"
    /\ camPc = "idle"
    /\ bestCamera = NoCamera
    /\ opens = <<>>
    /\ thrown = ""
    /\ notified = <<>>

\* the state of the gate when the module is loaded
GateAtRest ==
    /\ now = 0
    /\ nextSweep = SweepInterval
    /\ pendingResults = <<>>
    /\ verifiedResults = <<>>
    /\ resp = NoResponse
    /\ calls = 0
    /\ lastRelease = NoRelease

\* a message handed to ScanBridge.postMessage: whether JSON.parse accepts it
\* (an object is taken as it is), its member complete_scan ("true" for the
\* boolean true, "other" for any other value, "absent"), its member
\* voice_verified, and which post of the page it was
Message(parses, complete_scan, voice_verified, n) ==
    [parses |-> parses, complete_scan |-> complete_scan,
     voice_verified |-> voice_verified, n |-> n]

\* pendingBridgePayload = null
NoPayload == Message(FALSE, "absent", FALSE, 0)

\* the interceptor module is loaded and nothing was posted
BridgeAtRest ==
    /\ bridgeInjected = FALSE
    /\ installed = FALSE
    /\ watcherTimer = FALSE
    /\ voicePending = "undefined"
    /\ pendingBridgePayload = NoPayload
    /\ native = <<>>
    /\ posts = 0

\* CameraUtils is loaded and no capture was requested
LockAtRest ==
    /\ isCapturing = FALSE
    /\ frameBlobs = 0
    /\ croppedBlobs = 0
    /\ waiting = 0
    /\ captures = 0

\* the popup is mounted and the record button was not pressed
RecAtRest ==
    /\ recInFlight = <<>>
    /\ retryTimers = <<>>
    /\ recClock = 0
    /\ isRetrying = FALSE
    /\ retryAttempt = 0
    /\ isRecording = FALSE
    /\ recError = ""
    /\ clicks = 0
    /\ lastFailed = -1

\* no back-side result was returned to the page
VerifyAtRest ==
    /\ verifyPc = "idle"
    /\ verifyPhase = "idle"
    /\ secureResultId = NoId
    /\ scanStatus = [complete_scan |-> FALSE, status |-> "idle",
                     message |-> "Scan not started"]

AuxAtRest == BridgeAtRest /\ LockAtRest /\ RecAtRest /\ VerifyAtRest

Init == GateAtRest /\ CaptureAtRest("back") /\ SessionAtRest /\ CameraAtRest /\ AuxAtRest

\* the resultIds callers hold: those of the stored entries and those whose
\* payload was released to them
KnownIds == MapKeys(pendingResults) \cup MapKeys(verifiedResults) \cup ({lastRelease.key} \ {NoId})

----------------------------------------------------------------------------
(* POST: store scan results (before voice verification) *)

PendingEntry(sessionId, scanData, merchantId, t) ==
    [sessionId |-> sessionId, merchantId |-> merchantId, scanData |-> scanData,
     voiceVerified |-> FALSE, createdAt |-> t]

PostAccepted(resultId) ==
    [success |-> TRUE, resultId |-> resultId,
     status |-> "pending_voice_verification", complete_scan |-> FALSE,
     message |-> "Scan completed. Awaiting voice verification."]

\* bodyOk = FALSE: request.json() throws (the body is not a JSON object)
POST(bodyOk, sessionId, scanData, merchantId) ==
    LET req == [bodyOk |-> bodyOk, sessionId |-> sessionId, scanData |-> scanData,
                merchantId |-> merchantId]
        resultId == ResultId(sessionId, now)
    IN  /\ \/ ~bodyOk
           \/ sessionId = NoString
           \/ scanData = NoScanData
           \/ Cardinality(KnownIds \cup {resultId}) <= MaxIds
        /\ IF ~bodyOk
           THEN /\ resp' = Response("POST", req, 500,
                                    [error |-> "Failed to store scan results"], NoId)
                /\ UNCHANGED <<pendingResults, verifiedResults>>
           ELSE IF sessionId = NoString \/ scanData = NoScanData
           THEN /\ resp' = Response("POST", req, 400,
                                    [error |-> "sessionId and scanData are required"], NoId)
                /\ UNCHANGED <<pendingResults, verifiedResults>>
           ELSE /\ pendingResults' =
                       CleanupPending(
                           MapSet(pendingResults, resultId,
                                  PendingEntry(sessionId, scanData, merchantId, now)),
                           now)
                /\ verifiedResults' = CleanupVerified(verifiedResults, now)
                /\ resp' = Response("POST", req, 200, PostAccepted(resultId), NoId)
        /\ UNCHANGED <<now, nextSweep, lastRelease>>

----------------------------------------------------------------------------
(* PUT: mark a result as voice-verified *)

\* { ...pendingResult, voiceVerified: true, verificationId, verifiedAt: Date.now() }
VerifiedEntry(pendingResult, verificationId, t) ==
    Merge(pendingResult,
          [voiceVerified |-> TRUE, verificationId |-> verificationId, verifiedAt |-> t])

PUT(bodyOk, resultId, verificationId) ==
    LET req == [resultId |-> resultId, verificationId |-> verificationId]
    IN  /\ IF ~bodyOk
           THEN /\ resp' = Response("PUT", req, 500,
                                    [error |-> "Failed to verify result"], NoId)
                /\ UNCHANGED <<pendingResults, verifiedResults>>
           ELSE IF resultId = NoId \/ verificationId = NoString
           THEN /\ resp' = Response("PUT", req, 400,
                                    [error |-> "resultId and verificationId are required"], NoId)
                /\ UNCHANGED <<pendingResults, verifiedResults>>
           ELSE IF ~MapHas(pendingResults, resultId)
           THEN /\ resp' = Response("PUT", req, 404,
                                    [error |-> "Invalid or expired result ID"], NoId)
                /\ UNCHANGED <<pendingResults, verifiedResults>>
           ELSE /\ verifiedResults' =
                       MapSet(verifiedResults, resultId,
                              VerifiedEntry(MapGet(pendingResults, resultId),
                                            verificationId, now))
                /\ pendingResults' = MapDelete(pendingResults, resultId)
                /\ resp' = Response("PUT", req, 200,
                                    [success |-> TRUE,
                                     message |-> "Voice verification recorded. Data is now accessible."],
                                    NoId)
        /\ UNCHANGED <<now, nextSweep, lastRelease>>

----------------------------------------------------------------------------
(* GET: retrieve scan results (only if voice verified) *)

\* the first entry of m, in iteration order, whose sessionId is s; 0 if none
FirstBySession(m, s) ==
    LET hits == {i \in 1..Len(m) : m[i].val.sessionId = s}
    IN  IF hits = {} THEN 0 ELSE CHOOSE i \in hits : \A j \in hits : i <= j

\* "Find result by sessionId or resultId": what `result` and `foundResultId`
\* hold after the search, or that the search returned the pending answer
GetLookup(sessionId, resultId) ==
    IF resultId # NoId
    THEN IF MapHas(verifiedResults, resultId)
         THEN [kind |-> "result", key |-> resultId,
               val |-> MapGet(verifiedResults, resultId)]
         ELSE [kind |-> "none", key |-> resultId, val |-> <<>>]
    ELSE LET v == FirstBySession(verifiedResults, sessionId)
         IN  IF v # 0
             THEN [kind |-> "result", key |-> verifiedResults[v].key,
                   val |-> verifiedResults[v].val]
             ELSE IF FirstBySession(pendingResults, sessionId) # 0
             THEN [kind |-> "pending", key |-> NoId, val |-> <<>>]
             ELSE [kind |-> "none", key |-> NoId, val |-> <<>>]

\* mutant: the pending answer says the scan is complete
GetPendingFlagTrue(message) ==
    [success |-> FALSE, status |-> "pending_voice_verification",
     complete_scan |-> TRUE, message |-> message]

GetPending(message) ==
    [success |-> FALSE, status |-> "pending_voice_verification",
     complete_scan |-> FALSE, message |-> message]

\* mutant: verifiedAt is the time of the read, not of the verification
ResponseDataStamped(result) ==
    LET head == [success |-> TRUE, status |-> "verified", complete_scan |-> TRUE,
                 voice_verified |-> TRUE, verificationId |-> result.verificationId,
                 verifiedAt |-> now]
        enc == IF "encrypted_data" \in DOMAIN result.scanData
               THEN [encrypted_data |-> result.scanData.encrypted_data]
               ELSE <<>>
    IN  Merge(Merge(head, enc), result.scanData)

\* responseData: the scanData fields are spread last and override the others;
\* encrypted_data: undefined is dropped by JSON
ResponseData(result) ==
    LET head == [success |-> TRUE, status |-> "verified", complete_scan |-> TRUE,
                 voice_verified |-> TRUE, verificationId |-> result.verificationId,
                 verifiedAt |-> result.verifiedAt]
        enc == IF "encrypted_data" \in DOMAIN result.scanData
               THEN [encrypted_data |-> result.scanData.encrypted_data]
               ELSE <<>>
    IN  Merge(Merge(head, enc), result.scanData)

\* mutant: a resultId is looked up in both tables and what is found is
\* released without the voiceVerified check
GetResponseUngated(sessionId, resultId) ==
    LET req == [sessionId |-> sessionId, resultId |-> resultId]
        look == GetLookup(sessionId, resultId)
    IN  IF sessionId = NoString /\ resultId = NoId
        THEN Response("GET", req, 400,
                      [error |-> "sessionId or resultId is required"], NoId)
        ELSE IF look.kind = "pending"
        THEN Response("GET", req, 200,
                      GetPending("Voice verification not yet completed"), NoId)
        ELSE IF look.kind = "none" /\ MapHas(pendingResults, resultId)
        THEN Response("GET", req, 200,
                      Merge([success |-> TRUE, status |-> "verified",
                             complete_scan |-> TRUE],
                            MapGet(pendingResults, resultId).scanData),
                      resultId)
        ELSE IF look.kind = "none"
        THEN Response("GET", req, 404,
                      [error |-> "No results found for this session",
                       complete_scan |-> FALSE], NoId)
        ELSE Response("GET", req, 200, ResponseData(look.val), look.key)

\* the response GET sends
GetResponse(sessionId, resultId) ==
    LET req == [sessionId |-> sessionId, resultId |-> resultId]
        look == GetLookup(sessionId, resultId)
    IN  IF sessionId = NoString /\ resultId = NoId
        THEN Response("GET", req, 400,
                      [error |-> "sessionId or resultId is required"], NoId)
        ELSE IF look.kind = "pending"
        THEN Response("GET", req, 200,
                      GetPending("Voice verification not yet completed"), NoId)
        ELSE IF look.kind = "none"
        THEN Response("GET", req, 404,
                      [error |-> "No results found for this session",
                       complete_scan |-> FALSE], NoId)
        ELSE IF ~look.val.voiceVerified
        THEN Response("GET", req, 200,
                      GetPending("Voice verification required before accessing scan data"),
                      look.key)
        ELSE Response("GET", req, 200, ResponseData(look.val), look.key)

\* whether GET reaches responseData, the release of a result
GetReleases(sessionId, resultId) ==
    LET look == GetLookup(sessionId, resultId)
    IN  /\ sessionId # NoString \/ resultId # NoId
        /\ look.kind = "result"
        /\ look.val.voiceVerified

\* mutant: one-time access, the entry is deleted after the first read
AfterReleaseOneTime(key) == MapDelete(verifiedResults, key)

\* verifiedResults after responseData was built for the entry under key: the
\* one-time access (delete after first read) is commented out
AfterRelease(key) == verifiedResults

\* history: one more release of the entry stored under key
LogRelease(log, key, entry, body) ==
    IF key = log.key
    THEN [log EXCEPT !.count = IF @ < MaxReleases THEN @ + 1 ELSE @]
    ELSE [key |-> key, entry |-> entry, body |-> body, count |-> 1]

GET(sessionId, resultId) ==
    LET r == GetResponse(sessionId, resultId)
    IN  /\ resp' = r
        /\ IF GetReleases(sessionId, resultId)
           THEN /\ verifiedResults' = AfterRelease(r.found)
                /\ lastRelease' = LogRelease(lastRelease, r.found,
                                             MapGet(verifiedResults, r.found), r.body)
           ELSE UNCHANGED <<verifiedResults, lastRelease>>
        /\ UNCHANGED <<now, nextSweep, pendingResults>>

----------------------------------------------------------------------------
(* DELETE: manual cleanup *)

DELETE(resultId) ==
    LET req == [resultId |-> resultId]
        deletedFromPending == MapHas(pendingResults, resultId)
        deletedFromVerified == MapHas(verifiedResults, resultId)
    IN  /\ IF resultId = NoId
           THEN /\ resp' = Response("DELETE", req, 400,
                                    [error |-> "resultId is required"], NoId)
                /\ UNCHANGED <<pendingResults, verifiedResults, lastRelease>>
           ELSE /\ pendingResults' = MapDelete(pendingResults, resultId)
                /\ verifiedResults' = MapDelete(verifiedResults, resultId)
                /\ IF deletedFromPending \/ deletedFromVerified
                   THEN /\ resp' = Response("DELETE", req, 200,
                                            [success |-> TRUE,
                                             message |-> "Result deleted successfully"], NoId)
                        /\ lastRelease' =
                               IF lastRelease.key = resultId THEN NoRelease ELSE lastRelease
                   ELSE /\ resp' = Response("DELETE", req, 404,
                                            [error |-> "Result not found"], NoId)
                        /\ UNCHANGED lastRelease
        /\ UNCHANGED <<now, nextSweep>>

----------------------------------------------------------------------------
(* The clock and the setInterval timer *)

\* the timer callback: cleanupExpiredResults, then the timer is due again
\* one interval later
Sweep ==
    /\ now >= nextSweep
    /\ pendingResults' = CleanupPending(pendingResults, now)
    /\ verifiedResults' = CleanupVerified(verifiedResults, now)
    /\ nextSweep' = now + SweepInterval
    /\ resp' = NoResponse
    /\ UNCHANGED <<now, calls, lastRelease>>

\* time passes until the timer is due
TickToSweep ==
    /\ now < nextSweep
    /\ nextSweep <= MaxMinutes * SweepInterval
    /\ now' = nextSweep
    /\ resp' = NoResponse
    /\ UNCHANGED <<nextSweep, pendingResults, verifiedResults, calls, lastRelease>>

----------------------------------------------------------------------------

\* The requests callers send.  A request whose body does not parse carries
\* no parameters; a request is sent with all its parameters or with one missing.
PostRequests ==
    {<<TRUE, s, d, m>> : s \in SessionIds, d \in Payloads, m \in MerchantIds}
    \cup {<<TRUE, NoString, PlainPayload, "m1">>, <<TRUE, "s1", NoScanData, "m1">>,
          <<FALSE, NoString, NoScanData, "m1">>}

PutRequests ==
    {<<TRUE, r, v>> : r \in KnownIds \cup {UnknownId}, v \in VerificationIds}
    \cup {<<TRUE, NoId, "v1">>, <<TRUE, UnknownId, NoString>>, <<FALSE, NoId, NoString>>}

GetRequests ==
    {<<s, NoId>> : s \in SessionIds \cup {NoString}}
    \cup {<<NoString, r>> : r \in KnownIds \cup {UnknownId}}
    \cup {<<"s1", r>> : r \in KnownIds}

DeleteRequests == KnownIds \cup {UnknownId, NoId}

\* callers send requests in the first minute and after the quiet minutes,
\* MaxCalls of them at most
CallersActive ==
    /\ (now \div SweepInterval) \notin 1..QuietMinutes
    /\ calls < MaxCalls
    /\ calls' = calls + 1

Next ==
    \/ CallersActive /\ (\E q \in PostRequests : POST(q[1], q[2], q[3], q[4]))
                     /\ UNCHANGED <<captureVars, sessionVars, cameraVars, auxVars>>
    \/ CallersActive /\ (\E q \in PutRequests : PUT(q[1], q[2], q[3]))
                     /\ UNCHANGED <<captureVars, sessionVars, cameraVars, auxVars>>
    \/ CallersActive /\ (\E q \in GetRequests : GET(q[1], q[2]))
                     /\ UNCHANGED <<captureVars, sessionVars, cameraVars, auxVars>>
    \/ CallersActive /\ (\E resultId \in DeleteRequests : DELETE(resultId))
                     /\ UNCHANGED <<captureVars, sessionVars, cameraVars, auxVars>>
    \/ Sweep /\ UNCHANGED <<captureVars, sessionVars, cameraVars, auxVars>>
    \/ TickToSweep /\ UNCHANGED <<captureVars, sessionVars, cameraVars, auxVars>>

Spec == Init /\ [][Next]_vars

\* setInterval runs its callback every time it is due, and time passes
LiveSpec ==
    /\ Spec
    /\ WF_vars(Sweep /\ UNCHANGED <<captureVars, sessionVars, cameraVars, auxVars>>)
    /\ WF_vars(TickToSweep /\ UNCHANGED <<captureVars, sessionVars, cameraVars, auxVars>>)

----------------------------------------------------------------------------
(* One capture run of a card side.                                         *)
(* The back is run by captureAndSendFrames with phase 'back', the front by  *)
(* captureAndSendFramesFront with phase 'front' (page.js:1047, 1242): the   *)
(* branches of the three functions for other phases are not taken.         *)

Sides == {"back", "front", "frontLegacy"}

\* setInterval(processFrame, ...)
PollIntervalOf(s) == IF s = "frontLegacy" THEN LegacyPollIntervalMs ELSE PollIntervalMs

\* setTimeout(..., ...)
TimeoutOf(s) == IF s = "frontLegacy" THEN LegacyTimeoutMs ELSE TimeoutMs

(* What the classification endpoint can answer (sendFrameToAPI) *)

BufferInfo(n) == [front_frames_buffered |-> n, back_frames_buffered |-> n]

BackResponses ==
    { [buffer_info |-> BufferInfo(2), magstrip |-> TRUE, signstrip |-> TRUE],
      [buffer_info |-> BufferInfo(5), magstrip |-> TRUE],
      [buffer_info |-> BufferInfo(5), magstrip |-> TRUE, hologram |-> TRUE],
      [buffer_info |-> BufferInfo(5), magstrip |-> TRUE, hologram |-> TRUE,
       encrypted_data |-> "enc1"],
      [status |-> "success", complete_scan |-> TRUE, encrypted_data |-> "enc1",
       buffer_info |-> BufferInfo(2)],
      [status |-> "completed", encrypted_card_data |-> "card1"],
      [buffer_info |-> BufferInfo(2), message_state |-> "VALIDATION_FAILED"],
      [buffer_info |-> BufferInfo(5), message_state |-> "VALIDATION_FAILED"],
      [buffer_info |-> BufferInfo(2), validation_failed |-> TRUE,
       validation_reason |-> "brand_mismatch"],
      [status |-> "wait_for_front"],
      [error |-> "bad frame"] }

FrontResponses ==
    { [buffer_info |-> BufferInfo(2), chip |-> TRUE, bank_logo |-> TRUE],
      [buffer_info |-> BufferInfo(5), chip |-> TRUE, bank_logo |-> FALSE],
      [buffer_info |-> BufferInfo(5), chip |-> TRUE, bank_logo |-> TRUE],
      [status |-> "already_completed", buffer_info |-> BufferInfo(2)],
      [buffer_info |-> BufferInfo(2), message_state |-> "VALIDATION_FAILED"],
      [buffer_info |-> BufferInfo(5), message_state |-> "VALIDATION_FAILED"],
      [buffer_info |-> BufferInfo(2), fake_card |-> TRUE],
      [status |-> "wait_for_front"],
      [error |-> "bad frame"] }

ResponsesOf(s) == IF s = "back" THEN BackResponses ELSE FrontResponses

\* what the anti-spoof endpoint can answer (screen-detect/detect-screen)
ScreenAnswers ==
    {"model-unavailable", "other-500", "real", "screen", "no-is-screen",
     "not-ok", "network-error"}

(* Reading a response *)

\* apiResponse[k] === true
IsTrue(r, k) == k \in DOMAIN r /\ r[k] = TRUE

\* apiResponse[k] is a non-empty string
IsSet(r, k) == k \in DOMAIN r /\ r[k] # ""

\* apiResponse[k] === v
Is(r, k, v) == k \in DOMAIN r /\ r[k] = v

\* apiResponse.buffer_info?.front_frames_buffered, ...back_frames_buffered;
\* a missing count fails every >= test, as 0 does
BufferedFrames(r, s) ==
    IF "buffer_info" \in DOMAIN r
    THEN IF s = "back" THEN r.buffer_info.back_frames_buffered
                       ELSE r.buffer_info.front_frames_buffered
    ELSE 0

\* a validation test that does not look at the buffered-frame count
SufficientFramesAlways(r, s) == TRUE

\* "Check validation ONLY after we have sufficient buffered frames":
\* if (bufferedFrames >= 4)
SufficientFrames(r, s) == BufferedFrames(r, s) >= MinBufferedFrames

countBackSideFeatures(r) ==
    Cardinality({k \in {"magstrip", "signstrip", "hologram"} : IsTrue(r, k)})

\* status === "success" || status === "already_completed"
HasTerminalStatus(r) == Is(r, "status", "success") \/ Is(r, "status", "already_completed")

\* apiResponse.encrypted_card_data && apiResponse.status
IsLegacyFinal(r) == IsSet(r, "encrypted_card_data") /\ IsSet(r, "status")

\* message_state or movement_state === "VALIDATION_FAILED"
IsValidationFailed(r) ==
    Is(r, "message_state", "VALIDATION_FAILED") \/ Is(r, "movement_state", "VALIDATION_FAILED")

IsBrandMismatch(r) ==
    IsTrue(r, "validation_failed") /\ Is(r, "validation_reason", "brand_mismatch")

\* !apiResponse.error && status is neither wait_for_front nor wait_for_back
IsGoodResponse(r) ==
    /\ ~IsSet(r, "error")
    /\ ~Is(r, "status", "wait_for_front")
    /\ ~Is(r, "status", "wait_for_back")

\* sanitizedResponse: { ...apiResponse } without encrypted_data and
\* encrypted_card_data
Sanitize(r) == [k \in (DOMAIN r) \ {"encrypted_data", "encrypted_card_data"} |-> r[k]]

\* bufferedFrames >= 4 && count >= requiredBackSideFeatures
BackPredicate(r) ==
    /\ BufferedFrames(r, "back") >= MinBufferedFrames
    /\ countBackSideFeatures(r) >= RequiredBackSideFeatures

\* bufferedFrames >= 4 && chip === true && bank_logo === true  (part_002)
FrontPredicate(r) ==
    /\ BufferedFrames(r, "front") >= MinBufferedFrames
    /\ IsTrue(r, "chip")
    /\ IsTrue(r, "bank_logo")

\* bufferedFrames >= 4  (part_003)
LegacyFrontPredicate(r) == BufferedFrames(r, "front") >= MinBufferedFrames

(* What a callback does, as a record:                                      *)
(*   success, complete: it sets hasReceivedSuccess, isComplete             *)
(*   cleanup: it calls cleanup()                                           *)
(*   tracks: it passes "Track successful response"                         *)
(*   phase, message: the arguments of setCurrentPhase and setErrorMessage, *)
(*     "" when it calls neither                                            *)
(*   kind, value, error: its call of resolve or reject, "none" for neither *)

Effect(success, complete, cleanup, tracks, phase, message, kind, value, error) ==
    [success |-> success, complete |-> complete, cleanup |-> cleanup,
     tracks |-> tracks, phase |-> phase, message |-> message,
     kind |-> kind, value |-> value, error |-> error]

\* the response is dropped: "success received while in flight"
Discard == Effect(FALSE, FALSE, FALSE, FALSE, "", "", "none", NoApiResponse, "")

\* the response was tracked and polling goes on
GoOn == Effect(FALSE, FALSE, FALSE, TRUE, "", "", "none", NoApiResponse, "")

Resolve(success, complete, tracks, phase, value) ==
    Effect(success, complete, TRUE, tracks, phase, "", "resolve", value, "")

Reject(complete, tracks, phase, message, error) ==
    Effect(FALSE, complete, TRUE, tracks, phase, message, "reject", NoApiResponse, error)

\* lastApiResponse after "Track successful response"
Tracked(r) == IF IsGoodResponse(r) THEN r ELSE lastApiResponse

\* frameNumber >= maxFrames && maxFramesReachedTime &&
\* Date.now() - maxFramesReachedTime > 3000
GraceOver ==
    /\ frameNumber >= MaxFrames
    /\ maxFramesReachedTime # NoTime
    /\ clock - maxFramesReachedTime > GraceMs

\* captureBackSide.js:429-458, the fallback after the frame limit
BackFallback(last) ==
    IF last = NoApiResponse
    THEN Reject(FALSE, TRUE, "", "", "Maximum frames reached without sufficient data")
    ELSE IF IsLegacyFinal(last) \/ HasTerminalStatus(last)
    THEN Resolve(FALSE, FALSE, TRUE, "", last)
    ELSE IF BackPredicate(last)
    THEN Resolve(FALSE, FALSE, TRUE, "", last)
    ELSE Reject(FALSE, TRUE, "", "", "Insufficient back side features detected")

\* captureBackSide.js:281-459, processFrame after sendFrameToAPI has returned r
BackOnResponse(r) ==
    IF HasTerminalStatus(r)
    THEN Resolve(TRUE, TRUE, FALSE, "results", Sanitize(r))
    ELSE IF IsLegacyFinal(r)
    THEN Resolve(TRUE, TRUE, FALSE, "results", r)
    ELSE IF hasReceivedSuccess
    THEN Discard
    ELSE IF Is(r, "status", "wait_for_front") \/ Is(r, "status", "wait_for_back")
    THEN Reject(TRUE, FALSE, "error", "Issuer details do not match",
                "Session restart required")
    ELSE IF IsBrandMismatch(r)
    THEN Reject(TRUE, TRUE, "error", "Card brand mismatch", "Brand mismatch")
    ELSE IF SufficientFrames(r, "back") /\ IsValidationFailed(r)
    THEN Reject(TRUE, TRUE, "error", "Validation failed", "Validation failed")
    ELSE IF BackPredicate(r)
    THEN Resolve(FALSE, TRUE, TRUE, "", r)
    ELSE IF GraceOver
    THEN BackFallback(Tracked(r))
    ELSE GoOn

\* part_002:468-496, the fallback after the frame limit
FrontFallback(last) ==
    IF last = NoApiResponse
    THEN Reject(FALSE, TRUE, "", "", "Maximum frames reached without sufficient data")
    ELSE IF FrontPredicate(last)
    THEN Resolve(FALSE, FALSE, TRUE, "", last)
    ELSE Reject(FALSE, TRUE, "", "", "Front side requirements not met")

\* part_002:304-496, processFrame after sendFrameToAPI has returned r.
\* Line 314 reads capturedImageDataUrl, which part_002 does not declare: the
\* ReferenceError is caught at 498 and resolve is not called.
FrontOnResponse(r) ==
    IF HasTerminalStatus(r)
    THEN Effect(TRUE, TRUE, TRUE, FALSE, "results", "", "none", NoApiResponse, "")
    ELSE IF IsLegacyFinal(r)
    THEN Resolve(TRUE, TRUE, FALSE, "results", r)
    ELSE IF hasReceivedSuccess
    THEN Discard
    ELSE IF Is(r, "status", "wait_for_front")
    THEN Reject(TRUE, FALSE, "error", "Issuer details do not match",
                "Session restart required")
    ELSE IF IsTrue(r, "fake_card")
    THEN Reject(TRUE, TRUE, "fake-card-error", "Unacceptable Card Detection",
                "Unacceptable Card Detection")
    ELSE IF SufficientFrames(r, "front") /\ IsValidationFailed(r)
    THEN Reject(TRUE, TRUE, "error", "Validation failed", "Validation failed")
    ELSE IF FrontPredicate(r)
    THEN Resolve(TRUE, TRUE, TRUE, "", r)
    ELSE IF GraceOver
    THEN FrontFallback(Tracked(r))
    ELSE GoOn

\* part_003:397-421, the fallback after the frame limit
LegacyFallback(last) ==
    IF last = NoApiResponse
    THEN Reject(FALSE, TRUE, "", "", "Maximum frames reached without sufficient data")
    ELSE Resolve(FALSE, FALSE, TRUE, "", last)

\* part_003:237-421, processFrame after sendFrameToAPI has returned r
LegacyOnResponse(r) ==
    IF HasTerminalStatus(r)
    THEN Resolve(TRUE, TRUE, FALSE, "results", Merge(r, [capturedImage |-> "image1"]))
    ELSE IF IsLegacyFinal(r)
    THEN Resolve(TRUE, TRUE, FALSE, "results", r)
    ELSE IF hasReceivedSuccess
    THEN Discard
    ELSE IF Is(r, "status", "wait_for_front")
    THEN Reject(TRUE, FALSE, "error", "Issuer details do not match",
                "Session restart required")
    ELSE IF IsTrue(r, "fake_card")
    THEN Reject(TRUE, TRUE, "fake-card-error", "Fake card detected", "Fake card detected")
    ELSE IF SufficientFrames(r, "front") /\ IsValidationFailed(r)
    THEN Reject(TRUE, TRUE, "error", "Validation failed", "Validation failed")
    ELSE IF LegacyFrontPredicate(r)
    THEN Resolve(FALSE, TRUE, TRUE, "", r)
    ELSE IF GraceOver
    THEN LegacyFallback(Tracked(r))
    ELSE GoOn

OnResponse(r) ==
    IF side = "back" THEN BackOnResponse(r)
    ELSE IF side = "front" THEN FrontOnResponse(r)
    ELSE LegacyOnResponse(r)

\* the callback does nothing: "Timeout fired but detection already completed"
Ignore == Effect(FALSE, FALSE, FALSE, FALSE, "", "", "none", NoApiResponse, "")

\* captureBackSide.js:487-539, the timeout callback.  After reject at 529
\* the resolve at 534 has no effect.
BackOnTimeout ==
    IF isComplete \/ hasReceivedSuccess
    THEN Ignore
    ELSE IF successfulFramesCount = 0 \/ lastApiResponse = NoApiResponse
    THEN Reject(FALSE, FALSE, "", "", "Timeout: No successful API responses received")
    ELSE IF HasTerminalStatus(lastApiResponse) \/ IsLegacyFinal(lastApiResponse)
    THEN Resolve(FALSE, FALSE, FALSE, "", lastApiResponse)
    ELSE IF BackPredicate(lastApiResponse)
    THEN Resolve(FALSE, FALSE, FALSE, "", lastApiResponse)
    ELSE Reject(FALSE, FALSE, "", "", "Insufficient back side features")

\* part_002:517-568, the timeout callback
FrontOnTimeout ==
    IF isComplete \/ hasReceivedSuccess
    THEN Ignore
    ELSE IF successfulFramesCount = 0 \/ lastApiResponse = NoApiResponse
    THEN Reject(FALSE, FALSE, "", "", "Timeout: Network Error No successful API responses received")
    ELSE IF IsLegacyFinal(lastApiResponse) \/ HasTerminalStatus(lastApiResponse)
    THEN Resolve(FALSE, FALSE, FALSE, "results", lastApiResponse)
    ELSE IF FrontPredicate(lastApiResponse)
    THEN Resolve(FALSE, FALSE, FALSE, "", lastApiResponse)
    ELSE Reject(FALSE, FALSE, "", "", "Front side requirements not met")

\* part_003:439-478, the timeout callback
LegacyOnTimeout ==
    IF isComplete
    THEN Ignore
    ELSE IF successfulFramesCount = 0 \/ lastApiResponse = NoApiResponse
    THEN Reject(FALSE, FALSE, "", "", "Timeout: Network Error")
    ELSE IF IsLegacyFinal(lastApiResponse) \/ HasTerminalStatus(lastApiResponse)
    THEN Resolve(FALSE, FALSE, FALSE, "results", lastApiResponse)
    ELSE Resolve(FALSE, FALSE, FALSE, "", lastApiResponse)

OnTimeout ==
    IF side = "back" THEN BackOnTimeout
    ELSE IF side = "front" THEN FrontOnTimeout
    ELSE LegacyOnTimeout

\* resolve and reject settle the promise the first time only
Settle(e) ==
    IF settled.state # "pending" \/ e.kind = "none"
    THEN settled
    ELSE IF e.kind = "resolve"
    THEN [state |-> "resolved", value |-> e.value, error |-> ""]
    ELSE [state |-> "rejected", value |-> NoApiResponse, error |-> e.error]

\* the assignments and calls of a callback with effect e, in the polling loop
Apply(e) ==
    /\ hasReceivedSuccess' = (hasReceivedSuccess \/ e.success)
    /\ isComplete' = (isComplete \/ e.complete)
    /\ captureIntervalRef' = (captureIntervalRef /\ ~e.cleanup)
    /\ timeoutId' = (timeoutId /\ ~e.cleanup)
    /\ isProcessing' = (isProcessing /\ ~e.cleanup /\ ~e.tracks)
    /\ currentPhase' = IF e.phase = "" THEN currentPhase ELSE e.phase
    /\ phaseCalls' = IF e.phase = "" THEN phaseCalls ELSE phaseCalls + 1
    /\ errorMessage' = IF e.message = "" THEN errorMessage ELSE e.message
    /\ settled' = Settle(e)

(* The steps before the polling loop *)

\* the function is called: the checks of sessionId and video, then
\* enableFlashlight (part_003 has no enableFlashlight)
Begin ==
    /\ pc = "idle"
    /\ IF ~videoAvailable
       THEN /\ pc' = "done"
            /\ settled' = [state |-> "rejected", value |-> NoApiResponse,
                           error |-> "Video not ready for capture"]
            /\ UNCHANGED flash
       ELSE /\ pc' = "flashlight-on"
            /\ flash' = IF side = "frontLegacy" THEN flash ELSE TRUE
            /\ UNCHANGED settled
    /\ UNCHANGED <<side, isScreen, scanFrameCaptured, stopRequested, videoAvailable, clock,
                   nextTick, frameNumber, timeoutId, captureIntervalRef, isComplete,
                   hasReceivedSuccess, maxFramesReachedTime, lastApiResponse,
                   successfulFramesCount, inFlight, currentPhase, errorMessage,
                   isProcessing, phaseCalls>>

\* Frame #1 is captured and sent to the screen detection endpoint.
\* captureCroppedFrame rejects when videoRef.current is null and when the
\* video is not ready (readyState < 2, no dimensions); the function has no
\* try around it: the run ends with the flashlight on
CaptureLivenessFrame(ready) ==
    /\ pc = "flashlight-on"
    /\ IF videoAvailable /\ ready
       THEN /\ pc' = "liveness-check"
            /\ UNCHANGED settled
       ELSE /\ pc' = "done"
            /\ settled' = [state |-> "rejected", value |-> NoApiResponse,
                           error |-> IF videoAvailable
                                     THEN "Video not ready for capture"
                                     ELSE "Video or canvas reference is null"]
    /\ UNCHANGED <<side, isScreen, flash, scanFrameCaptured, stopRequested, videoAvailable,
                   clock, nextTick, frameNumber, timeoutId, captureIntervalRef,
                   isComplete, hasReceivedSuccess, maxFramesReachedTime,
                   lastApiResponse, successfulFramesCount, inFlight,
                   currentPhase, errorMessage, isProcessing, phaseCalls>>

\* page.js:475-511, disableFlashlight: with a stream on the video element
\* the torch is turned off and the zoom reset; without one nothing is done
AfterDisableFlashlight == IF videoAvailable THEN FALSE ELSE flash

\* a screen check that lets every answer pass
ScreenIsFakePermissive(answer) == FALSE

\* screenData.is_screen === true on an ok response
ScreenIsFake(answer) == answer = "screen"

\* the answer of the screen detection endpoint: a screen turns the flash
\* off and throws; every other answer, and a failed request, passes and
\* turns the flash off
ScreenDetect(answer) ==
    /\ pc = "liveness-check"
    /\ flash' = AfterDisableFlashlight
    /\ isScreen' = (answer = "screen")
    /\ IF ScreenIsFake(answer)
       THEN /\ pc' = "done"
            /\ settled' = [state |-> "rejected", value |-> NoApiResponse,
                           error |-> IF side = "frontLegacy"
                                     THEN "Fake card detected"
                                     ELSE "Unacceptable Card Detection"]
       ELSE /\ pc' = "flashlight-off"
            /\ UNCHANGED settled
    /\ UNCHANGED <<side, scanFrameCaptured, stopRequested, videoAvailable, clock,
                   nextTick, frameNumber, timeoutId, captureIntervalRef, isComplete,
                   hasReceivedSuccess, maxFramesReachedTime, lastApiResponse,
                   successfulFramesCount, inFlight, currentPhase, errorMessage,
                   isProcessing, phaseCalls>>

\* Frame #2 is captured and shown, then the function waits 3 s (part_003
\* captures its frame in the first processFrame and waits 2.5 s)
CaptureScanFrame ==
    /\ pc = "flashlight-off"
    /\ pc' = "scan-capture"
    /\ scanFrameCaptured' = (side # "frontLegacy")
    /\ UNCHANGED <<side, isScreen, flash, stopRequested, videoAvailable, clock, nextTick,
                   frameNumber, timeoutId, captureIntervalRef, isComplete,
                   hasReceivedSuccess, maxFramesReachedTime, lastApiResponse,
                   successfulFramesCount, inFlight, settled, currentPhase,
                   errorMessage, isProcessing, phaseCalls>>

(* The polling loop *)

\* processFrame(); captureIntervalRef = setInterval(...); timeoutId =
\* setTimeout(...): the first processFrame runs before the timers exist, so
\* the cleanup() of its "video no longer available" branch clears nothing
StartPolling ==
    /\ pc = "scan-capture"
    /\ pc' = "polling"
    /\ captureIntervalRef' = TRUE
    /\ timeoutId' = TRUE
    /\ nextTick' = PollIntervalOf(side)
    /\ IF stopRequested
       THEN UNCHANGED <<frameNumber, inFlight, isComplete, settled, isProcessing,
                        scanFrameCaptured>>
       ELSE IF ~videoAvailable
       THEN /\ isComplete' = TRUE
            /\ isProcessing' = FALSE
            /\ settled' = [state |-> "rejected", value |-> NoApiResponse,
                           error |-> "Component cleanup detected during frame capture"]
            /\ UNCHANGED <<frameNumber, inFlight, scanFrameCaptured>>
       ELSE /\ frameNumber' = 1
            /\ inFlight' = 1
            /\ isProcessing' = TRUE
            /\ scanFrameCaptured' = TRUE
            /\ UNCHANGED <<isComplete, settled>>
    /\ UNCHANGED <<side, isScreen, flash, stopRequested, videoAvailable, clock,
                   hasReceivedSuccess, maxFramesReachedTime, lastApiResponse,
                   successfulFramesCount, currentPhase, errorMessage, phaseCalls>>

\* clearInterval(captureIntervalRef); captureIntervalRef = null
IntervalAfterLimit == FALSE

\* the interval fires: processFrame up to sendFrameToAPI
Tick ==
    /\ pc = "polling"
    /\ captureIntervalRef
    /\ nextTick <= TimeoutOf(side)
    /\ clock' = nextTick
    /\ nextTick' = nextTick + PollIntervalOf(side)
    /\ IF hasReceivedSuccess
       THEN \* cleanup()
            /\ captureIntervalRef' = FALSE
            /\ timeoutId' = FALSE
            /\ isProcessing' = FALSE
            /\ UNCHANGED <<frameNumber, inFlight, isComplete, settled,
                           maxFramesReachedTime>>
       ELSE IF isComplete \/ stopRequested
       THEN UNCHANGED <<captureIntervalRef, timeoutId, isProcessing, frameNumber,
                        inFlight, isComplete, settled, maxFramesReachedTime>>
       ELSE IF ~videoAvailable
       THEN /\ isComplete' = TRUE
            /\ captureIntervalRef' = FALSE
            /\ timeoutId' = FALSE
            /\ isProcessing' = FALSE
            /\ settled' =
                   IF settled.state # "pending" THEN settled
                   ELSE IF lastApiResponse # NoApiResponse
                   THEN [state |-> "resolved", value |-> lastApiResponse, error |-> ""]
                   ELSE [state |-> "rejected", value |-> NoApiResponse,
                         error |-> "Component cleanup detected during frame capture"]
            /\ UNCHANGED <<frameNumber, inFlight, maxFramesReachedTime>>
       ELSE IF frameNumber + 1 > MaxFrames
       THEN /\ frameNumber' = frameNumber + 1
            /\ maxFramesReachedTime' =
                   IF maxFramesReachedTime = NoTime THEN nextTick ELSE maxFramesReachedTime
            /\ captureIntervalRef' =
                   IF maxFramesReachedTime = NoTime THEN IntervalAfterLimit
                                                    ELSE captureIntervalRef
            /\ UNCHANGED <<timeoutId, isProcessing, inFlight, isComplete, settled>>
       ELSE /\ inFlight < MaxInFlight
            /\ frameNumber' = frameNumber + 1
            /\ inFlight' = inFlight + 1
            /\ isProcessing' = TRUE
            /\ UNCHANGED <<captureIntervalRef, timeoutId, isComplete, settled,
                           maxFramesReachedTime>>
    /\ UNCHANGED <<side, isScreen, pc, flash, scanFrameCaptured, stopRequested, videoAvailable,
                   hasReceivedSuccess, lastApiResponse, successfulFramesCount,
                   currentPhase, errorMessage, phaseCalls>>

\* sendFrameToAPI returns r: the rest of processFrame
Respond(r) ==
    /\ pc = "polling"
    /\ inFlight > 0
    /\ inFlight' = inFlight - 1
    /\ LET e == OnResponse(r)
       IN  /\ Apply(e)
           /\ lastApiResponse' = IF e.tracks THEN Tracked(r) ELSE lastApiResponse
           /\ successfulFramesCount' =
                  IF e.tracks /\ IsGoodResponse(r) THEN successfulFramesCount + 1
                                                   ELSE successfulFramesCount
    /\ UNCHANGED <<side, isScreen, pc, flash, scanFrameCaptured, stopRequested, videoAvailable,
                   clock, nextTick, frameNumber, maxFramesReachedTime>>

\* sendFrameToAPI throws: catch (apiError), setIsProcessing(false)
RequestFails ==
    /\ pc = "polling"
    /\ inFlight > 0
    /\ inFlight' = inFlight - 1
    /\ isProcessing' = FALSE
    /\ UNCHANGED <<side, isScreen, pc, flash, scanFrameCaptured, stopRequested, videoAvailable,
                   clock, nextTick, frameNumber, timeoutId, captureIntervalRef,
                   isComplete, hasReceivedSuccess, maxFramesReachedTime,
                   lastApiResponse, successfulFramesCount, settled, currentPhase,
                   errorMessage, phaseCalls>>

\* the timeout fires
Timeout ==
    /\ pc = "polling"
    /\ timeoutId
    /\ ~captureIntervalRef \/ nextTick >= TimeoutOf(side)
    /\ clock' = TimeoutOf(side)
    /\ Apply(OnTimeout)
    /\ UNCHANGED <<side, isScreen, pc, flash, scanFrameCaptured, stopRequested, videoAvailable,
                   nextTick, frameNumber, maxFramesReachedTime, lastApiResponse,
                   successfulFramesCount, inFlight>>

\* after the frame limit, more than 3 s pass with requests still out
GracePasses ==
    /\ pc = "polling"
    /\ ~captureIntervalRef
    /\ maxFramesReachedTime # NoTime
    /\ clock <= maxFramesReachedTime + GraceMs
    /\ clock' = maxFramesReachedTime + GraceMs + 1
    /\ UNCHANGED <<side, isScreen, pc, flash, scanFrameCaptured, stopRequested, videoAvailable,
                   nextTick, frameNumber, timeoutId, captureIntervalRef, isComplete,
                   hasReceivedSuccess, maxFramesReachedTime, lastApiResponse,
                   successfulFramesCount, inFlight, settled, currentPhase,
                   errorMessage, isProcessing, phaseCalls>>

(* The caller *)

\* page.js sets stopRequestedRef.current = true (stopDetection and others)
RequestStop ==
    /\ pc \in {"flashlight-on", "scan-capture", "polling"}
    /\ ~stopRequested
    /\ stopRequested' = TRUE
    /\ UNCHANGED <<side, isScreen, pc, flash, scanFrameCaptured, videoAvailable, clock,
                   nextTick, frameNumber, timeoutId, captureIntervalRef, isComplete,
                   hasReceivedSuccess, maxFramesReachedTime, lastApiResponse,
                   successfulFramesCount, inFlight, settled, currentPhase,
                   errorMessage, isProcessing, phaseCalls>>

\* the camera view is unmounted: videoRef.current becomes null
Unmount ==
    /\ pc \in {"idle", "flashlight-on", "scan-capture", "polling"}
    /\ videoAvailable
    /\ videoAvailable' = FALSE
    /\ UNCHANGED <<side, isScreen, pc, flash, scanFrameCaptured, stopRequested, clock,
                   nextTick, frameNumber, timeoutId, captureIntervalRef, isComplete,
                   hasReceivedSuccess, maxFramesReachedTime, lastApiResponse,
                   successfulFramesCount, inFlight, settled, currentPhase,
                   errorMessage, isProcessing, phaseCalls>>

\* the sessionId of the page when the scan is started: the value handed to
\* captureAndSendFrames (page.js:1242) and the one in the body of the POST
\* (page.js:1279) are the same variable of the same closure
ScanSessionId == "s1"

\* page.js:1258  finalResult?.status === "success" || ... "already_completed"
CallerSeesSuccess(finalResult) == HasTerminalStatus(finalResult)

\* error.message.includes('Unacceptable Card Detection')
IsFakeCardError(message) == message = "Unacceptable Card Detection"

\* page.js:514-574, handleDetectionFailure as far as the run is concerned:
\* stopRequestedRef.current = true, disableFlashlight(), and the phase that
\* depends on the attempt count
CallerFails(atMax) ==
    /\ callerOutcome' = "failure"
    /\ stopRequested' = TRUE
    /\ flash' = AfterDisableFlashlight
    /\ currentPhase' = IF atMax THEN "max-attempts-reached" ELSE "error"
    /\ errorMessage' = IF atMax THEN "Maximum attempts reached" ELSE "Attempt failed"
    /\ UNCHANGED posted

\* the catch blocks of the callers (page.js:1071-1089, 1339-1372)
CallerCatches(atMax) ==
    IF IsFakeCardError(settled.error)
    THEN /\ callerOutcome' = "fake-card"
         /\ currentPhase' = "fake-card-error"
         /\ errorMessage' = "Sorry, we do not accept screen detection cards"
         /\ UNCHANGED <<stopRequested, flash, posted>>
    ELSE IF side = "back" /\ settled.error = "Back validation failed"
    THEN /\ callerOutcome' = "none"
         /\ UNCHANGED <<stopRequested, flash, posted, currentPhase, errorMessage>>
    ELSE CallerFails(atMax)

\* page.js:1242-1338, startBackSideDetection after the await: on success
\* disableFlashlight() and the POST to the Result Gate; stored tells
\* whether the gate answered success
BackCallerResumes(stored, atMax) ==
    IF settled.state = "rejected"
    THEN CallerCatches(atMax)
    ELSE IF CallerSeesSuccess(settled.value)
    THEN /\ stopRequested' = TRUE
         /\ flash' = AfterDisableFlashlight
         /\ posted' = [sessionId |-> ScanSessionId, scanData |-> settled.value]
         /\ callerOutcome' = IF stored THEN "stored" ELSE "store-failed"
         /\ currentPhase' = IF stored THEN "back-complete" ELSE "error"
         /\ errorMessage' = IF stored THEN errorMessage
                                       ELSE "Failed to process scan results"
    ELSE CallerFails(atMax)

\* page.js:1044-1070 (and 1146-1172), the front callers after the await
FrontCallerResumes(atMax) ==
    IF settled.state = "rejected"
    THEN CallerCatches(atMax)
    ELSE /\ callerOutcome' = "ready-for-back"
         /\ currentPhase' = "ready-for-back"
         /\ UNCHANGED <<stopRequested, flash, posted, errorMessage>>

\* the await of the caller returns; with stopRequestedRef.current set the
\* caller does nothing with the outcome
CallerResumes ==
    /\ callerOutcome = "awaiting"
    /\ settled.state # "pending"
    /\ IF stopRequested
       THEN /\ callerOutcome' = "stopped"
            /\ UNCHANGED <<stopRequested, flash, posted, currentPhase, errorMessage>>
       ELSE \E stored \in BOOLEAN, atMax \in BOOLEAN :
                IF side = "back" THEN BackCallerResumes(stored, atMax)
                                 ELSE FrontCallerResumes(atMax)
    /\ UNCHANGED <<side, isScreen, pc, scanFrameCaptured, videoAvailable, clock, nextTick,
                   frameNumber, timeoutId, captureIntervalRef, isComplete,
                   hasReceivedSuccess, maxFramesReachedTime, lastApiResponse,
                   successfulFramesCount, inFlight, settled, isProcessing,
                   phaseCalls>>

CaptureInit == GateAtRest /\ SessionAtRest /\ CameraAtRest /\ AuxAtRest /\ \E s \in Sides : CaptureAtRest(s)

CaptureNext ==
    \/ Begin /\ UNCHANGED <<gateVars, sessionVars, cameraVars, auxVars, callerOutcome, posted>>
    \/ (\E ready \in BOOLEAN : CaptureLivenessFrame(ready)) /\ UNCHANGED <<gateVars, sessionVars, cameraVars, auxVars, callerOutcome, posted>>
    \/ (\E answer \in ScreenAnswers : ScreenDetect(answer)) /\ UNCHANGED <<gateVars, sessionVars, cameraVars, auxVars, callerOutcome, posted>>
    \/ CaptureScanFrame /\ UNCHANGED <<gateVars, sessionVars, cameraVars, auxVars, callerOutcome, posted>>
    \/ StartPolling /\ UNCHANGED <<gateVars, sessionVars, cameraVars, auxVars, callerOutcome, posted>>
    \/ Tick /\ UNCHANGED <<gateVars, sessionVars, cameraVars, auxVars, callerOutcome, posted>>
    \/ (\E r \in ResponsesOf(side) : Respond(r)) /\ UNCHANGED <<gateVars, sessionVars, cameraVars, auxVars, callerOutcome, posted>>
    \/ RequestFails /\ UNCHANGED <<gateVars, sessionVars, cameraVars, auxVars, callerOutcome, posted>>
    \/ Timeout /\ UNCHANGED <<gateVars, sessionVars, cameraVars, auxVars, callerOutcome, posted>>
    \/ GracePasses /\ UNCHANGED <<gateVars, sessionVars, cameraVars, auxVars, callerOutcome, posted>>
    \/ RequestStop /\ UNCHANGED <<gateVars, sessionVars, cameraVars, auxVars, callerOutcome, posted>>
    \/ Unmount /\ UNCHANGED <<gateVars, sessionVars, cameraVars, auxVars, callerOutcome, posted>>
    \/ CallerResumes /\ UNCHANGED <<gateVars, sessionVars, cameraVars, auxVars>>

CaptureSpec == CaptureInit /\ [][CaptureNext]_vars

----------------------------------------------------------------------------
(* The scan session of the page (src/src/app/page.js): the session id, the  *)
(* attempt counter and the handlers that start, stop and retry a scan.     *)
(* A handler is a closure of the render in which it was created: a scan    *)
(* that is started keeps the attemptCount and the sessionId of that render *)
(* until its capture run settles, whatever the state is by then.  The refs *)
(* (stopRequestedRef, backSuccessReceivedRef) are read when used.  A       *)
(* capture run is not ended by stopDetection: its timers are locals of the *)
(* run, so a stopped run settles later, and a second run can be started    *)
(* before it does.  The outcome of a run is an input here.                 *)

\* The control panel (components/ControlPanel, not in the sources) gets the
\* handlers of the page as props (page.js:1790-1797).  What it offers in
\* which phase follows the specification: a scan is started from idle and
\* its back side from "ready for back", a running scan can be stopped, a
\* failure below the ceiling is retried or started over, a fake card is
\* retried by its own control, and the max-attempts state is terminal.
ControlPanelOffers(handler) ==
    CASE handler = "startCardScanning" -> pagePhase = "idle"
      [] handler = "startFrontSideDetection" -> pagePhase = "idle"
      [] handler = "startBackSideDetection" -> pagePhase = "ready-for-back"
      [] handler = "stopDetection" ->
            pagePhase \in {"front-countdown", "front", "back-countdown", "back"}
      [] handler = "handleTryAgain" -> pagePhase = "error"
      [] handler = "handleStartOver" -> pagePhase = "error"
      [] handler = "resetApplication" -> pagePhase \in {"error", "back-complete"}
      [] handler = "handleFakeCardRetry" -> pagePhase = "fake-card-error"

\* how a capture run can end for its caller: the front runs resolve, or
\* reject with the fake-card message or with another one; the back run
\* resolves with a final status or without one, or rejects likewise
FrontOutcomes == {"resolved", "fake-card", "failed"}

BackOutcomes == {"success", "no-status", "fake-card", "failed"}

OutcomesOf(op) == IF op = "back" THEN BackOutcomes ELSE FrontOutcomes

\* the closure of a start handler: the state of the render it belongs to.
\* The callback that would set the phase "front" (page.js:1050-1055) is not
\* handed on to the capture run by useDetection (part_004:24-41) and is never
\* called.
Closure(op, session) ==
    [op |-> op, attemptCount |-> attemptCount, sessionId |-> sessionIdState,
     currentSessionId |-> session, detectionActive |-> detectionActive]

\* page.js:980-1034, startCardScanning up to startCountdown
startCardScanning ==
    /\ ControlPanelOffers("startCardScanning")
    /\ ~maxAttemptsReached /\ ~detectionActive
    /\ scans < MaxScans
    /\ sessionIdState = NoSession => sessions < MaxSessions
    /\ LET new == sessionIdState = NoSession
           currentSessionId == IF new THEN SessionIdOf(sessions + 1) ELSE sessionIdState
       IN  /\ sessionIdState' = currentSessionId
           /\ sessions' = IF new THEN sessions + 1 ELSE sessions
           /\ attemptCount' = IF new THEN 0 ELSE attemptCount
           /\ countdown' = Closure("front", currentSessionId)
    /\ currentOperation' = ""
    /\ pagePhase' = "front-countdown"
    /\ stopRequestedRef' = FALSE
    /\ scans' = scans + 1
    /\ UNCHANGED <<maxAttemptsReached, fakeCardDetectedPhase, detectionActive,
                   backSuccessReceivedRef, runs, tryAgainTimer, detectionTimeoutRef,
                   reports>>
    /\ counted' = NoCount

\* page.js:1093-1134, startFrontSideDetection up to startCountdown: it
\* neither resets attemptCount nor clears currentOperation
startFrontSideDetection ==
    /\ ControlPanelOffers("startFrontSideDetection")
    /\ ~maxAttemptsReached /\ ~detectionActive
    /\ scans < MaxScans
    /\ sessionIdState = NoSession => sessions < MaxSessions
    /\ LET new == sessionIdState = NoSession
           currentSessionId == IF new THEN SessionIdOf(sessions + 1) ELSE sessionIdState
       IN  /\ sessionIdState' = currentSessionId
           /\ sessions' = IF new THEN sessions + 1 ELSE sessions
           /\ countdown' = Closure("front", currentSessionId)
    /\ pagePhase' = "front-countdown"
    /\ stopRequestedRef' = FALSE
    /\ scans' = scans + 1
    /\ UNCHANGED <<attemptCount, maxAttemptsReached, currentOperation,
                   fakeCardDetectedPhase, detectionActive, backSuccessReceivedRef,
                   runs, tryAgainTimer, detectionTimeoutRef, reports>>
    /\ counted' = NoCount

\* page.js:1195-1229, startBackSideDetection up to startCountdown
startBackSideDetection ==
    /\ ControlPanelOffers("startBackSideDetection")
    /\ ~maxAttemptsReached
    /\ scans < MaxScans
    /\ IF sessionIdState = NoSession
       THEN /\ pagePhase' = "error"
            /\ UNCHANGED <<countdown, backSuccessReceivedRef, stopRequestedRef, scans>>
       ELSE /\ pagePhase' = "back-countdown"
            /\ backSuccessReceivedRef' = FALSE
            /\ stopRequestedRef' = FALSE
            /\ countdown' = Closure("back", sessionIdState)
            /\ scans' = scans + 1
    /\ UNCHANGED <<sessionIdState, attemptCount, maxAttemptsReached, currentOperation,
                   fakeCardDetectedPhase, detectionActive, runs, tryAgainTimer,
                   detectionTimeoutRef, reports, sessions>>
    /\ counted' = NoCount

\* page.js:1034-1046, 1229-1242: the countdown reaches 0 after 3 s and the
\* capture run is started; startDetectionTimeout arms the 60 s timer.  A 100 ms
\* timer of handleTryAgain that was set before the countdown fires first.
CountdownDone ==
    /\ countdown # NoCountdown
    /\ ~tryAgainTimer
    /\ Len(runs) < MaxRuns
    /\ countdown' = NoCountdown
    /\ IF stopRequestedRef
       THEN UNCHANGED <<pagePhase, detectionActive, runs, detectionTimeoutRef>>
       ELSE /\ pagePhase' = IF countdown.op = "back" THEN "back" ELSE pagePhase
            /\ detectionActive' = TRUE
            /\ runs' = Append(runs, countdown)
            /\ detectionTimeoutRef' = TRUE
    /\ UNCHANGED <<sessionIdState, attemptCount, maxAttemptsReached, currentOperation,
                   fakeCardDetectedPhase, stopRequestedRef, backSuccessReceivedRef,
                   tryAgainTimer, reports, scans, sessions>>
    /\ UNCHANGED counted

\* page.js:549-551  `MAX RETRY REACHED: ${message}`
ReasonOf(message) == <<"MAX RETRY REACHED", message>>

\* page.js:514-574, handleDetectionFailure in the closure c
handleDetectionFailure(c, message, operation) ==
    LET newAttemptCount == c.attemptCount + 1
    IN  /\ detectionTimeoutRef' = FALSE
        /\ countdown' = NoCountdown
        /\ stopRequestedRef' = TRUE
        /\ detectionActive' = FALSE
        /\ attemptCount' = newAttemptCount
        /\ currentOperation' = operation
        /\ IF newAttemptCount >= MAX_ATTEMPTS
           THEN /\ maxAttemptsReached' = TRUE
                /\ pagePhase' = "max-attempts-reached"
                /\ reports' = IF c.sessionId # NoSession /\ MerchantId # ""
                              THEN Append(reports, [sessionId |-> c.sessionId,
                                                    reason |-> ReasonOf(message),
                                                    operation |-> operation])
                              ELSE reports
                /\ counted' = NoCount
           ELSE /\ pagePhase' = "error"
                /\ counted' = [sessionId |-> sessionIdState,
                                attemptCount |-> newAttemptCount]
                /\ UNCHANGED <<maxAttemptsReached, reports>>

\* the catch of a start handler, page.js:1071-1089, 1173-1190, 1339-1372
CatchOf(c, o) ==
    IF stopRequestedRef
    THEN /\ detectionActive' = FALSE
         /\ UNCHANGED pagePhase
         /\ UNCHANGED <<counted, countdown, attemptCount, maxAttemptsReached, currentOperation,
                        fakeCardDetectedPhase, stopRequestedRef, detectionTimeoutRef,
                        reports, backSuccessReceivedRef>>
    ELSE IF o = "fake-card"
    THEN /\ detectionActive' = FALSE
         /\ pagePhase' = "fake-card-error"
         /\ fakeCardDetectedPhase' = c.op
         /\ UNCHANGED <<counted, countdown, attemptCount, maxAttemptsReached, currentOperation,
                        stopRequestedRef, detectionTimeoutRef, reports,
                        backSuccessReceivedRef>>
    ELSE /\ handleDetectionFailure(c, IF c.op = "back" THEN "Back side detection failed"
                                                         ELSE "Front side detection failed",
                                   c.op)
         /\ UNCHANGED <<fakeCardDetectedPhase, backSuccessReceivedRef>>

\* page.js:1058-1070, the front callers after the await
FrontSettles(c, o) ==
    IF o # "resolved"
    THEN CatchOf(c, o)
    ELSE /\ IF stopRequestedRef
            THEN /\ UNCHANGED pagePhase
                 /\ UNCHANGED <<detectionActive, currentOperation, detectionTimeoutRef>>
            ELSE /\ detectionTimeoutRef' = FALSE
                 /\ detectionActive' = FALSE
                 /\ currentOperation' = ""
                 /\ pagePhase' = "ready-for-back"
         /\ UNCHANGED <<counted, countdown, attemptCount, maxAttemptsReached, fakeCardDetectedPhase,
                        stopRequestedRef, reports, backSuccessReceivedRef>>

\* page.js:1242-1338, startBackSideDetection after the await; stored tells
\* whether the Result Gate answered success
BackSettles(c, o, stored) ==
    IF o \in {"fake-card", "failed"}
    THEN IF backSuccessReceivedRef
         THEN UNCHANGED <<counted, countdown, attemptCount, maxAttemptsReached, currentOperation,
                          fakeCardDetectedPhase, stopRequestedRef, detectionTimeoutRef,
                          reports, backSuccessReceivedRef, detectionActive, pagePhase>>
         ELSE CatchOf(c, o)
    ELSE IF backSuccessReceivedRef \/ stopRequestedRef
    THEN /\ UNCHANGED pagePhase
         /\ UNCHANGED <<counted, countdown, attemptCount, maxAttemptsReached, currentOperation,
                        fakeCardDetectedPhase, stopRequestedRef, detectionTimeoutRef,
                        reports, backSuccessReceivedRef, detectionActive>>
    ELSE IF o = "success"
    THEN /\ detectionTimeoutRef' = FALSE
         /\ detectionActive' = FALSE
         /\ backSuccessReceivedRef' = TRUE
         /\ stopRequestedRef' = TRUE
         /\ IF stored
            THEN /\ pagePhase' = "back-complete"
                 /\ attemptCount' = 0
                 /\ currentOperation' = ""
            ELSE /\ pagePhase' = "error"
                 /\ UNCHANGED <<attemptCount, currentOperation>>
         /\ counted' = IF stored THEN NoCount ELSE counted
         /\ UNCHANGED <<countdown, maxAttemptsReached, fakeCardDetectedPhase, reports>>
    ELSE /\ handleDetectionFailure(c, "Back scan incomplete or failed.", "back")
         /\ UNCHANGED <<fakeCardDetectedPhase, backSuccessReceivedRef>>

\* seq without its i-th element
RemoveAt(seq, i) == [j \in 1..(Len(seq) - 1) |-> IF j < i THEN seq[j] ELSE seq[j + 1]]

\* the capture run i settles with outcome o and its caller goes on
RunSettles(i, o, stored) ==
    /\ i \in 1..Len(runs)
    /\ o \in OutcomesOf(runs[i].op)
    /\ runs' = RemoveAt(runs, i)
    /\ IF runs[i].op = "back" THEN BackSettles(runs[i], o, stored)
                              ELSE FrontSettles(runs[i], o)
    /\ UNCHANGED <<sessionIdState, tryAgainTimer, scans, sessions>>

\* page.js:754-761, the callback of the detection timeout: detectionActive
\* and isProcessing are those of the render in which the scan was started,
\* where the scan was not active yet
DetectionTimeout ==
    /\ detectionTimeoutRef
    /\ detectionTimeoutRef' = FALSE
    /\ UNCHANGED <<sessionIdState, attemptCount, maxAttemptsReached, currentOperation,
                   fakeCardDetectedPhase, pagePhase, detectionActive, stopRequestedRef,
                   backSuccessReceivedRef, countdown, runs, tryAgainTimer, reports,
                   scans, sessions>>
    /\ UNCHANGED counted

\* page.js:913-959, stopDetection
stopDetection ==
    /\ ControlPanelOffers("stopDetection")
    /\ stopRequestedRef' = TRUE
    /\ detectionTimeoutRef' = FALSE
    /\ countdown' = NoCountdown
    /\ detectionActive' = FALSE
    /\ pagePhase' = IF pagePhase \in {"front-countdown", "front"} THEN "idle"
                    ELSE IF pagePhase \in {"back-countdown", "back"} THEN "ready-for-back"
                    ELSE "idle"
    /\ UNCHANGED <<sessionIdState, attemptCount, maxAttemptsReached, currentOperation,
                   fakeCardDetectedPhase, backSuccessReceivedRef, runs, tryAgainTimer,
                   reports, scans, sessions>>
    /\ UNCHANGED counted

\* page.js:1424-1507, handleTryAgain: every branch keeps the session id and
\* sets the timer that returns to idle after 100 ms
handleTryAgain ==
    /\ ControlPanelOffers("handleTryAgain")
    /\ stopRequestedRef' = TRUE
    /\ backSuccessReceivedRef' = FALSE
    /\ detectionTimeoutRef' = FALSE
    /\ countdown' = NoCountdown
    /\ detectionActive' = FALSE
    /\ tryAgainTimer' = TRUE
    /\ UNCHANGED <<sessionIdState, attemptCount, maxAttemptsReached, currentOperation,
                   fakeCardDetectedPhase, pagePhase, runs, reports, scans, sessions>>
    /\ UNCHANGED counted

\* page.js:1461-1464, the callback of the 100 ms timer of handleTryAgain
TryAgainTimer ==
    /\ tryAgainTimer
    /\ tryAgainTimer' = FALSE
    /\ pagePhase' = "idle"
    /\ stopRequestedRef' = FALSE
    /\ UNCHANGED <<sessionIdState, attemptCount, maxAttemptsReached, currentOperation,
                   fakeCardDetectedPhase, detectionActive, backSuccessReceivedRef,
                   countdown, runs, detectionTimeoutRef, reports, scans, sessions>>
    /\ UNCHANGED counted

\* page.js:1509-1519, handleStartOver
handleStartOver ==
    /\ ControlPanelOffers("handleStartOver")
    /\ detectionTimeoutRef' = FALSE
    /\ pagePhase' = "idle"
    /\ attemptCount' = 0
    /\ maxAttemptsReached' = FALSE
    /\ currentOperation' = ""
    /\ stopRequestedRef' = FALSE
    /\ UNCHANGED <<sessionIdState, fakeCardDetectedPhase, detectionActive,
                   backSuccessReceivedRef, countdown, runs, tryAgainTimer, reports,
                   scans, sessions>>
    /\ counted' = NoCount

\* page.js:1376-1421, resetApplication ("Start New Session")
resetApplication ==
    /\ ControlPanelOffers("resetApplication")
    /\ sessions < MaxSessions
    /\ backSuccessReceivedRef' = FALSE
    /\ detectionTimeoutRef' = FALSE
    /\ pagePhase' = "idle"
    /\ detectionActive' = FALSE
    /\ sessionIdState' = NoSession
    /\ attemptCount' = 0
    /\ maxAttemptsReached' = FALSE
    /\ currentOperation' = ""
    /\ countdown' = NoCountdown
    /\ stopRequestedRef' = FALSE
    /\ UNCHANGED <<fakeCardDetectedPhase, runs, tryAgainTimer, reports, scans,
                   sessions>>
    /\ counted' = NoCount

\* page.js:1668-1705, handleFakeCardRetry
handleFakeCardRetry ==
    /\ ControlPanelOffers("handleFakeCardRetry")
    /\ LET newAttemptCount == attemptCount + 1
       IN  /\ attemptCount' = newAttemptCount
           /\ IF newAttemptCount >= MAX_ATTEMPTS
              THEN /\ maxAttemptsReached' = TRUE
                   /\ pagePhase' = "max-attempts-reached"
                   /\ counted' = NoCount
                   /\ UNCHANGED stopRequestedRef
              ELSE /\ stopRequestedRef' = FALSE
                   /\ pagePhase' = IF fakeCardDetectedPhase = "back"
                                   THEN "ready-for-back" ELSE "idle"
                   /\ counted' = [sessionId |-> sessionIdState,
                                   attemptCount |-> newAttemptCount]
                   /\ UNCHANGED maxAttemptsReached
    /\ fakeCardDetectedPhase' = "none"
    /\ UNCHANGED <<sessionIdState, currentOperation, detectionActive,
                   backSuccessReceivedRef, countdown, runs, tryAgainTimer,
                   detectionTimeoutRef, reports, scans, sessions>>

SessionInit ==
    /\ GateAtRest
    /\ CaptureAtRest("back")
    /\ SessionAtRest
    /\ CameraAtRest
    /\ AuxAtRest

SessionNext ==
    \/ startCardScanning /\ UNCHANGED <<gateVars, captureVars, cameraVars, auxVars>>
    \/ startFrontSideDetection /\ UNCHANGED <<gateVars, captureVars, cameraVars, auxVars>>
    \/ startBackSideDetection /\ UNCHANGED <<gateVars, captureVars, cameraVars, auxVars>>
    \/ CountdownDone /\ UNCHANGED <<gateVars, captureVars, cameraVars, auxVars>>
    \/ (\E i \in 1..MaxRuns, o \in FrontOutcomes \cup BackOutcomes, stored \in BOOLEAN :
            RunSettles(i, o, stored)) /\ UNCHANGED <<gateVars, captureVars, cameraVars, auxVars>>
    \/ DetectionTimeout /\ UNCHANGED <<gateVars, captureVars, cameraVars, auxVars>>
    \/ stopDetection /\ UNCHANGED <<gateVars, captureVars, cameraVars, auxVars>>
    \/ handleTryAgain /\ UNCHANGED <<gateVars, captureVars, cameraVars, auxVars>>
    \/ TryAgainTimer /\ UNCHANGED <<gateVars, captureVars, cameraVars, auxVars>>
    \/ handleStartOver /\ UNCHANGED <<gateVars, captureVars, cameraVars, auxVars>>
    \/ resetApplication /\ UNCHANGED <<gateVars, captureVars, cameraVars, auxVars>>
    \/ handleFakeCardRetry /\ UNCHANGED <<gateVars, captureVars, cameraVars, auxVars>>

SessionSpec == SessionInit /\ [][SessionNext]_vars

----------------------------------------------------------------------------
(* Camera negotiation and initialization (CameraUtils, of which            *)
(* src/unnamed/part_005 holds two copies: the current one from line 1546   *)
(* on and an older one before it).  The devices the browser enumerates,    *)
(* whether the torch of each really works, and the results of the          *)
(* getUserMedia calls are the environment.  TEST_MODE is a switch of the   *)
(* build (part_005:1550, "Set to false for production"): both settings are *)
(* explored.  findBestCameraForScan only reads the environment, so it is   *)
(* an operator; initializeCamera is an action per getUserMedia call.       *)

\* the words the code looks for in a lower-cased label that occur in it
WordsOf(label) ==
    CASE label = "Back Camera" -> {"back", "back camera"}
      [] label = "Back Main Camera" -> {"back", "main"}
      [] label = "Back Dual Wide Camera" -> {"back", "wide", "dual wide", "wide camera"}
      [] label = "Back Ultra Wide Camera" -> {"back", "wide", "ultra", "wide camera"}
      [] label = "Back Telephoto Camera" -> {"back", "telephoto", "tele"}
      [] label = "Front Camera" -> {"front"}
      [] OTHER -> {}

\* label.includes(word)
Includes(label, word) == word \in WordsOf(label)

\* part_005:1639-1676
scoreCameraForScanning(device) ==
    LET label == device.label
        s1 == IF Includes(label, "dual wide") \/ Includes(label, "wide camera") THEN 100 ELSE 0
        s2 == IF Includes(label, "main") THEN 90 ELSE 0
        s3 == IF Includes(label, "wide") /\ ~Includes(label, "ultra") THEN 80 ELSE 0
        s4 == IF /\ Includes(label, "back camera")
                 /\ ~Includes(label, "ultra")
                 /\ ~Includes(label, "telephoto") THEN 70 ELSE 0
        s5 == IF Includes(label, "dual camera") THEN 60 ELSE 0
        s6 == IF Includes(label, "triple camera") THEN 50 ELSE 0
        s7 == IF Includes(label, "ultra") THEN 0 - 50 ELSE 0
        s8 == IF \/ Includes(label, "telephoto")
                 \/ Includes(label, "tele")
                 \/ Includes(label, "zoom") THEN 0 - 100 ELSE 0
    IN  s1 + s2 + s3 + s4 + s5 + s6 + s7 + s8

\* part_005:1679-1708
classifyCameraFacing(device) ==
    LET label == device.label
    IN  IF \E w \in {"back", "rear", "environment", "main", "wide", "ultra",
                      "telephoto", "macro"} : Includes(label, w)
        THEN "back"
        ELSE IF \E w \in {"front", "selfie", "user", "facetime"} : Includes(label, w)
        THEN "front"
        ELSE IF Includes(label, "camera 0") \/ Includes(label, "camera2 0")
        THEN "back"
        ELSE IF Includes(label, "camera 1") \/ Includes(label, "camera2 1")
        THEN "front"
        ELSE "unknown"

\* the label names a telephoto or an ultra-wide lens (part_005:1937-1939)
IsTelephoto(device) ==
    \/ Includes(device.label, "telephoto")
    \/ Includes(device.label, "tele")
    \/ Includes(device.label, "zoom")

IsUltraWide(device) == Includes(device.label, "ultra")

\* part_005:2003, the deviceId can be used
ValidDeviceId(device) == device.deviceId # NoDeviceId

\* checkCameraTorchSupport(deviceId).supported (part_005:1711-1803): the
\* torch was switched on in a trial stream of the device and read back
checkCameraTorchSupport(device) == device.torch

\* the elements of seq that are in the set keep, in order
RECURSIVE Filter(_, _)
Filter(seq, keep) ==
    IF seq = <<>> THEN <<>>
    ELSE IF Head(seq) \in keep THEN <<Head(seq)>> \o Filter(Tail(seq), keep)
    ELSE Filter(Tail(seq), keep)

\* cam put into a list sorted by descending score, behind the elements whose
\* score is not lower (Array.prototype.sort is stable)
RECURSIVE InsertByScore(_, _)
InsertByScore(sorted, cam) ==
    IF sorted = <<>> THEN <<cam>>
    ELSE IF scoreCameraForScanning(Head(sorted)) >= scoreCameraForScanning(cam)
    THEN <<Head(sorted)>> \o InsertByScore(Tail(sorted), cam)
    ELSE <<cam>> \o sorted

\* the list as enumerated
KeepOrder(seq) == seq

\* scoredCameras.sort((a, b) => b.score - a.score), part_005:1961
RECURSIVE SortByScore(_)
SortByScore(seq) ==
    IF seq = <<>> THEN <<>>
    ELSE InsertByScore(SortByScore(SubSeq(seq, 1, Len(seq) - 1)), seq[Len(seq)])

\* the elements of a sequence
Range(seq) == {seq[i] : i \in DOMAIN seq}

\* part_005:1897-1915, the cameras of the wanted facing
FacingCameras(devs, forSide) ==
    LET targetFacing == IF forSide = "front" THEN "front" ELSE "back"
        matching == Filter(devs, {d \in Range(devs) : classifyCameraFacing(d) = targetFacing})
        notFront == Filter(devs, {d \in Range(devs) : classifyCameraFacing(d) # "front"})
    IN  IF matching # <<>> THEN matching
        ELSE IF forSide = "back" /\ notFront # <<>> THEN notFront
        ELSE devs

\* part_005:1931-1972, targetCameras when the torch tests start
TargetCameras(devs, forSide) ==
    LET targetCameras == FacingCameras(devs, forSide)
    IN  IF forSide = "back" /\ Len(targetCameras) > 1
        THEN SortByScore(Filter(targetCameras,
                 {d \in Range(targetCameras) : ~IsTelephoto(d) /\ ~IsUltraWide(d)}))
        ELSE targetCameras

\* the first camera of the list with a deviceId whose torch test succeeds
\* (part_005:1997-2046), or 0
RECURSIVE FirstWithTorch(_, _)
FirstWithTorch(cams, i) ==
    IF i > Len(cams) THEN 0
    ELSE IF ValidDeviceId(cams[i]) /\ checkCameraTorchSupport(cams[i]) THEN i
    ELSE FirstWithTorch(cams, i + 1)

\* label || fallback
LabelOr(label, fallback) == IF label = "" THEN fallback ELSE label

\* part_005:1806-2157, findBestCameraForScan of the current copy
findBestCameraForScan(devs, forSide, TEST_MODE) ==
    LET targetCameras == TargetCameras(devs, forSide)
        found == FirstWithTorch(targetCameras, 1)
    IN  IF devs = <<>>
        THEN Camera(NoDeviceId, FALSE, "default", "")
        ELSE IF forSide = "back" /\ Len(targetCameras) > 0
        THEN IF found # 0
             THEN Camera(targetCameras[found].deviceId, TRUE,
                         LabelOr(targetCameras[found].label, "Unknown"), "")
             ELSE IF TEST_MODE
             THEN Camera(targetCameras[1].deviceId, FALSE,
                         LabelOr(targetCameras[1].label, "Test Camera"), "")
             ELSE Camera(NoDeviceId, FALSE, "No torch camera", "NO_TORCH_CAMERA")
        ELSE IF forSide = "front" /\ Len(targetCameras) > 0
        THEN Camera(targetCameras[1].deviceId, FALSE,
                    LabelOr(targetCameras[1].label, "Unknown"), "")
        ELSE Camera(NoDeviceId, FALSE, "No camera", "NO_CAMERA")

\* { ...device } of the older copy (part_005:226-229): the attributes of a
\* MediaDeviceInfo are accessors of its prototype, which the spread does
\* not copy, so the classified camera has neither deviceId nor label
Spread(device) == [label |-> "", deviceId |-> NoDeviceId, torch |-> device.torch]

\* the cameras of the older copy after classification, in order
RECURSIVE SpreadAll(_)
SpreadAll(cams) ==
    IF cams = <<>> THEN <<>> ELSE <<Spread(Head(cams))>> \o SpreadAll(Tail(cams))

\* part_005:181-323, findBestCameraForScan of the older copy: the facing is
\* computed from the device itself, everything later reads the copy
LegacyFindBestCameraForScan(devs, forSide) ==
    LET targetCameras == SpreadAll(FacingCameras(devs, forSide))
        found == IF forSide = "back" THEN FirstWithTorch(targetCameras, 1) ELSE 0
    IN  IF devs = <<>>
        THEN Camera(NoDeviceId, FALSE, "default", "")
        ELSE IF found # 0
        THEN Camera(targetCameras[found].deviceId, TRUE,
                    LabelOr(targetCameras[found].label, "Unknown"), "")
        ELSE Camera(targetCameras[1].deviceId, FALSE,
                    LabelOr(targetCameras[1].label, "Unknown"), "")

\* error.message.startsWith(...) of the catch of initializeCamera
\* (part_005:2597-2603): the messages that are thrown on as they are
RethrownAsIs ==
    {"PERMISSION_DENIED", "NO_CAMERA", "CAMERA_IN_USE", "CAMERA_ACCESS_FAILED",
     "VIDEO_REF_NULL", "INVALID_STREAM"}

\* initializeCamera throws message inside its try: the catch (part_005:2591-2609)
\* decides what the caller gets
Throws(message) ==
    /\ camPc' = "done"
    /\ IF message \in RethrownAsIs
       THEN /\ thrown' = message
            /\ UNCHANGED notified
       ELSE /\ thrown' = "CAMERA_ACCESS_FAILED"
            /\ notified' = Append(notified, "GENERIC_ERROR")

\* onPermissionDenied(code) followed by throw new Error(message)
NotifiesAndThrows(code, message) ==
    /\ camPc' = "done"
    /\ IF message \in RethrownAsIs
       THEN /\ thrown' = message
            /\ notified' = Append(notified, code)
       ELSE /\ thrown' = "CAMERA_ACCESS_FAILED"
            /\ notified' = Append(Append(notified, code), "GENERIC_ERROR")

\* part_005:2246-2370 (older copy: 408-441), initializeCamera up to the
\* getUserMedia call for the capture stream
Negotiate(permissionStatus, iosDevice) ==
    /\ camPc = "idle"
    /\ permissionStatus = "no-camera" => devices = <<>>
    /\ iosDevice => copy = "current"
    /\ IF permissionStatus = "denied"
       THEN /\ NotifiesAndThrows("PERMISSION_DENIED", "PERMISSION_DENIED")
            /\ UNCHANGED bestCamera
       ELSE IF permissionStatus = "no-camera"
       THEN /\ NotifiesAndThrows("NO_CAMERA", "NO_CAMERA")
            /\ UNCHANGED bestCamera
       ELSE IF copy = "legacy"
       THEN /\ bestCamera' = LegacyFindBestCameraForScan(devices, scanSide)
            /\ camPc' = "open"
            /\ UNCHANGED <<thrown, notified>>
       ELSE LET best == IF iosDevice
                        THEN Camera(NoDeviceId, FALSE, "Primary Camera", "")
                        ELSE findBestCameraForScan(devices, scanSide, testMode)
            IN  /\ bestCamera' = best
                /\ IF best.error = "NO_TORCH_CAMERA" /\ scanSide = "back"
                   THEN NotifiesAndThrows("NO_TORCH_CAMERA", "NO_TORCH_CAMERA")
                   ELSE IF best.error = "NO_CAMERA"
                   THEN NotifiesAndThrows("NO_CAMERA", "NO_CAMERA")
                   ELSE IF scanSide = "back" /\ ~best.hasTorch /\ ~testMode
                   THEN NotifiesAndThrows("NO_TORCH_CAMERA", "NO_TORCH_CAMERA")
                   ELSE /\ camPc' = "open"
                        /\ UNCHANGED <<thrown, notified>>
    /\ UNCHANGED <<copy, testMode, devices, scanSide, opens>>

\* the error names of getUserMedia the code tells apart
GetUserMediaErrors == {"NotAllowedError", "NotFoundError", "NotReadableError", "OtherError"}

\* part_005:2416-2438, the error a failed open without fallback is turned into
OpenFailure(errorName) ==
    IF errorName = "NotAllowedError" THEN NotifiesAndThrows("PERMISSION_DENIED", "PERMISSION_DENIED")
    ELSE IF errorName = "NotFoundError" THEN NotifiesAndThrows("NO_CAMERA", "NO_CAMERA")
    ELSE IF errorName = "NotReadableError" THEN NotifiesAndThrows("CAMERA_IN_USE", "CAMERA_IN_USE")
    ELSE NotifiesAndThrows("GENERIC_ERROR", "CAMERA_ACCESS_FAILED")

\* a deviceId was pinned
PinnedDevice == bestCamera.deviceId # NoDeviceId

\* the open by deviceId failed: whether a second open by facingMode follows
\* (part_005:2391; older copy: 482)
FallsBack ==
    IF copy = "legacy" THEN bestCamera.deviceId # NoDeviceId
    ELSE bestCamera.deviceId # NoDeviceId /\ scanSide = "front"

\* part_005:2343-2440 (older copy: 446-502): getUserMedia for the capture
\* stream, by the deviceId of bestCamera or by facingMode when it has none;
\* result is "ok" or the name of the error
OpenStream(result) ==
    /\ camPc = "open"
    /\ result \in {"ok"} \cup GetUserMediaErrors
    /\ opens' = Append(opens, IF bestCamera.deviceId # NoDeviceId THEN "deviceId"
                                                                 ELSE "facingMode")
    /\ IF result = "ok"
       THEN /\ camPc' = "verify"
            /\ UNCHANGED <<thrown, notified>>
       ELSE IF /\ copy = "current"
               /\ bestCamera.deviceId # NoDeviceId /\ bestCamera.hasTorch /\ scanSide = "back"
       THEN NotifiesAndThrows("TORCH_CAMERA_ACCESS_FAILED", "TORCH_CAMERA_ACCESS_FAILED")
       ELSE IF FallsBack
       THEN /\ camPc' = "fallback"
            /\ UNCHANGED <<thrown, notified>>
       ELSE OpenFailure(result)
    /\ UNCHANGED <<copy, testMode, devices, scanSide, bestCamera>>

\* part_005:2389-2414 (older copy: 479-502): the second getUserMedia, by
\* facingMode alone
OpenFallback(ok) ==
    /\ camPc = "fallback"
    /\ opens' = Append(opens, "fallback")
    /\ IF ok
       THEN /\ camPc' = "verify"
            /\ UNCHANGED <<thrown, notified>>
       ELSE Throws("getUserMediaError")
    /\ UNCHANGED <<copy, testMode, devices, scanSide, bestCamera>>

\* part_005:2442-2520 (older copy: 530-570): the checks of the stream that
\* was opened; torchReported is 'torch' in capabilities of its track
VerifyStream(active, hasTrack, torchReported, videoMounted) ==
    /\ camPc = "verify"
    /\ IF ~active
       THEN NotifiesAndThrows("INVALID_STREAM", "INVALID_STREAM")
       ELSE IF ~hasTrack
       THEN NotifiesAndThrows("NO_VIDEO_TRACK", "NO_VIDEO_TRACK")
       ELSE IF copy = "current" /\ scanSide = "back" /\ ~torchReported /\ ~testMode
       THEN NotifiesAndThrows("NO_TORCH_VERIFICATION_FAILED", "NO_TORCH_VERIFICATION_FAILED")
       ELSE IF ~videoMounted
       THEN Throws("VIDEO_REF_NULL")
       ELSE /\ camPc' = "loading"
            /\ UNCHANGED <<thrown, notified>>
    /\ UNCHANGED <<copy, testMode, devices, scanSide, bestCamera, opens>>

\* part_005:2524-2589: the promise initializeCamera returns settles when
\* the video element has loaded, failed, or 15 s have passed
VideoLoads(result) ==
    /\ camPc = "loading"
    /\ result \in {"loaded", "VIDEO_ELEMENT_ERROR", "VIDEO_LOAD_TIMEOUT"}
    /\ camPc' = "done"
    /\ thrown' = IF result = "loaded" THEN "" ELSE result
    /\ UNCHANGED <<copy, testMode, devices, scanSide, bestCamera, opens, notified>>

\* the labels of the sample devices
Labels ==
    {"Back Camera", "Back Main Camera", "Back Dual Wide Camera",
     "Back Ultra Wide Camera", "Back Telephoto Camera", "Front Camera", ""}

\* the devices at position i; enumerateDevices gives every device its
\* deviceId, or, without the permission, none of them one, and a device
\* without deviceId cannot be tested
DevicesAt(i, withIds) ==
    IF withIds THEN [label : Labels, deviceId : {i}, torch : BOOLEAN]
    ELSE [label : Labels, deviceId : {NoDeviceId}, torch : {FALSE}]

\* the lists of n devices, each with a label of its own
RECURSIVE ListsOf(_, _)
ListsOf(n, withIds) ==
    IF n = 0 THEN {<<>>}
    ELSE UNION {{Append(ds, d) : d \in {x \in DevicesAt(n, withIds) :
                                         \A i \in 1..Len(ds) : ds[i].label # x.label}} :
                ds \in ListsOf(n - 1, withIds)}

\* the lists of at most MaxDevices devices
DeviceLists == UNION {ListsOf(n, withIds) : n \in 0..MaxDevices, withIds \in BOOLEAN}

\* the older copy has no TEST_MODE
CameraInit ==
    /\ GateAtRest
    /\ CaptureAtRest("back")
    /\ SessionAtRest
    /\ AuxAtRest
    /\ copy \in {"current", "legacy"}
    /\ testMode \in (IF copy = "current" THEN BOOLEAN ELSE {FALSE})
    /\ devices \in DeviceLists
    /\ scanSide \in {"back", "front"}
    /\ camPc = "idle"
    /\ bestCamera = NoCamera
    /\ opens = <<>>
    /\ thrown = ""
    /\ notified = <<>>

CameraNext ==
    \/ (\E permissionStatus \in {"granted", "denied", "no-camera"}, iosDevice \in BOOLEAN :
            Negotiate(permissionStatus, iosDevice))
       /\ UNCHANGED <<gateVars, captureVars, sessionVars, auxVars>>
    \/ (\E result \in {"ok"} \cup GetUserMediaErrors : OpenStream(result))
       /\ UNCHANGED <<gateVars, captureVars, sessionVars, auxVars>>
    \/ (\E ok \in BOOLEAN : OpenFallback(ok))
       /\ UNCHANGED <<gateVars, captureVars, sessionVars, auxVars>>
    \/ (\E active, hasTrack, torchReported, videoMounted \in BOOLEAN :
            VerifyStream(active, hasTrack, torchReported, videoMounted))
       /\ UNCHANGED <<gateVars, captureVars, sessionVars, auxVars>>
    \/ (\E result \in {"loaded", "VIDEO_ELEMENT_ERROR", "VIDEO_LOAD_TIMEOUT"} :
            VideoLoads(result))
       /\ UNCHANGED <<gateVars, captureVars, sessionVars, auxVars>>

CameraSpec == CameraInit /\ [][CameraNext]_vars

----------------------------------------------------------------------------
(* Properties of the Result Gate.  resp is the response of the handler that *)
(* ran in the step leading to the state, so a state predicate over resp and *)
(* the tables speaks of a response and of the store right after it.         *)

\* the fields only a scan payload supplies
ScanFields == {"encrypted_data", "score"}

CarriesPayload(body) == \E k \in ScanFields : k \in DOMAIN body

\* a GET response that is responseData
Released(r) == r.op = "GET" /\ r.found # NoId /\ "voice_verified" \in DOMAIN r.body

\* the response has field k with value v
HasField(body, k, v) == k \in DOMAIN body /\ body[k] = v

\* the "still pending" answer of GET
IsPendingAnswer(r) ==
    /\ r.code = 200
    /\ HasField(r.body, "status", "pending_voice_verification")
    /\ HasField(r.body, "complete_scan", FALSE)
    /\ ~CarriesPayload(r.body)

\* C1: a response carries scan-payload fields only if it is a fetch whose
\* entry is in verifiedResults, marked voiceVerified with a verificationId,
\* and the fields are those of that entry; no other response carries any.
C1_FetchReleasesOnlyVerified ==
    CarriesPayload(resp.body) =>
        /\ resp.op = "GET"
        /\ resp.found # NoId
        /\ MapHas(verifiedResults, resp.found)
        /\ LET e == MapGet(verifiedResults, resp.found)
           IN  /\ e.voiceVerified
               /\ "verificationId" \in DOMAIN e
               /\ \A k \in DOMAIN e.scanData : HasField(resp.body, k, e.scanData[k])
               /\ \A k \in ScanFields \cap DOMAIN resp.body : k \in DOMAIN e.scanData

\* C1 witness: a fetch released a payload while another entry is still pending
C1_Witness ==
    /\ resp.op = "GET"
    /\ CarriesPayload(resp.body)
    /\ Len(pendingResults) > 0

\* C2 as stated: every fetch response has a boolean complete_scan, true only
\* for a result already marked verified.
C2_EveryResponseHasFlag ==
    resp.op = "GET" =>
        /\ "complete_scan" \in DOMAIN resp.body
        /\ resp.body.complete_scan \in BOOLEAN
        /\ resp.body.complete_scan =>
               /\ resp.found # NoId
               /\ MapHas(verifiedResults, resp.found)
               /\ MapGet(verifiedResults, resp.found).voiceVerified

\* C2 amended: every response to a fetch that names a sessionId or a resultId
\* has complete_scan; it is false in every response that releases nothing and
\* true only for a result already marked verified.  The 400 response to a
\* fetch that names neither has no complete_scan.
C2_FlagFalseUntilVerified ==
    resp.op = "GET" =>
        IF resp.req.sessionId = NoString /\ resp.req.resultId = NoId
        THEN resp.code = 400 /\ "complete_scan" \notin DOMAIN resp.body
        ELSE /\ "complete_scan" \in DOMAIN resp.body
             /\ ~Released(resp) => resp.body.complete_scan = FALSE
             /\ resp.body.complete_scan = TRUE =>
                    /\ Released(resp)
                    /\ MapHas(verifiedResults, resp.found)
                    /\ MapGet(verifiedResults, resp.found).voiceVerified

\* C2 witness: a poll by sessionId was answered "still pending"
C2_Witness ==
    /\ resp.op = "GET"
    /\ resp.req.sessionId # NoString
    /\ IsPendingAnswer(resp)
    /\ Len(pendingResults) > 0

\* C3 as stated: a fetch by resultId of a verified entry returns status
\* "verified", complete_scan true, voice_verified true, the verificationId
\* that markVerified stored, and the fields of the payload.
C3_RoundTrip ==
    (/\ resp.op = "GET"
     /\ resp.req.resultId # NoId
     /\ MapHas(verifiedResults, resp.req.resultId)) =>
        LET e == MapGet(verifiedResults, resp.req.resultId)
        IN  /\ resp.code = 200
            /\ HasField(resp.body, "status", "verified")
            /\ HasField(resp.body, "complete_scan", TRUE)
            /\ HasField(resp.body, "voice_verified", TRUE)
            /\ HasField(resp.body, "verificationId", e.verificationId)
            /\ \A k \in DOMAIN e.scanData : HasField(resp.body, k, e.scanData[k])

\* C4 as stated: a fetch addressed, by resultId or by sessionId, to an entry
\* that exists only in pendingResults gets the "still pending" answer.
C4_PendingAnswer ==
    resp.op = "GET" =>
        /\ (/\ resp.req.resultId # NoId
            /\ MapHas(pendingResults, resp.req.resultId)
            /\ ~MapHas(verifiedResults, resp.req.resultId)) => IsPendingAnswer(resp)
        /\ (/\ resp.req.resultId = NoId
            /\ resp.req.sessionId # NoString
            /\ FirstBySession(pendingResults, resp.req.sessionId) # 0
            /\ FirstBySession(verifiedResults, resp.req.sessionId) = 0) => IsPendingAnswer(resp)

\* C5 as stated: markVerified succeeds only for a known resultId whose
\* pending entry was not older than five minutes at that time (an unknown
\* or expired one gets 404 and no verified entry).
C5_ExpiredNotVerified ==
    /\ (resp.op = "PUT" /\ resp.code = 200) =>
           /\ MapHas(verifiedResults, resp.req.resultId)
           /\ LET e == MapGet(verifiedResults, resp.req.resultId)
              IN  ~IsExpired(e.createdAt, e.verifiedAt)
    /\ (resp.op = "PUT" /\ resp.req.resultId = UnknownId) =>
           resp.code # 200 /\ ~MapHas(verifiedResults, UnknownId)

\* C6 as stated: no resultId is in both tables at once, and a markVerified
\* that reports success has left the entry, with payload and verification
\* timestamp, in verifiedResults.
C6_NeverInBothTables ==
    /\ MapKeys(pendingResults) \cap MapKeys(verifiedResults) = {}
    /\ (resp.op = "PUT" /\ resp.code = 200) =>
           /\ MapHas(verifiedResults, resp.req.resultId)
           /\ LET e == MapGet(verifiedResults, resp.req.resultId)
              IN  e.scanData \in Payloads /\ e.verifiedAt = now

\* C7 as stated: once a resultId is verified, a later markVerified of it
\* gets 404 and the stored verificationId and verifiedAt do not change.
C7_VerifiedOnce ==
    [][\A k \in MapKeys(verifiedResults) :
          /\ (resp'.op = "PUT" /\ resp'.req.resultId = k) => resp'.code = 404
          /\ MapHas(verifiedResults', k) =>
                 /\ MapGet(verifiedResults', k).verificationId
                        = MapGet(verifiedResults, k).verificationId
                 /\ MapGet(verifiedResults', k).verifiedAt
                        = MapGet(verifiedResults, k).verifiedAt]_vars

\* C8 as stated: the payload of a result is released at most once.
C8_ReleasedOnce == lastRelease.count <= 1

\* C8 amended: once the verification is recorded, every fetch of the result
\* releases its payload, and a release leaves the entry in verifiedResults
\* for the next fetch (until it is discarded or swept): releases are not
\* limited to one.
C8_ReleasedOnEveryFetch ==
    resp.op = "GET" =>
        /\ (resp.req.resultId # NoId /\ MapHas(verifiedResults, resp.req.resultId)) =>
               Released(resp) /\ resp.found = resp.req.resultId
        /\ Released(resp) =>
               /\ MapHas(verifiedResults, resp.found)
               /\ lastRelease.key = resp.found
               /\ lastRelease.count >= 1

\* C8 witness: the same result was released a second time
C8_Witness == Released(resp) /\ lastRelease.count = 2

C10_SubmitCreatesPending ==
    (/\ resp.op = "POST"
     /\ resp.req.bodyOk
     /\ resp.req.sessionId # NoString
     /\ resp.req.scanData # NoScanData) =>
        /\ resp.code = 200
        /\ "resultId" \in DOMAIN resp.body
        /\ MapHas(pendingResults, resp.body.resultId)
        /\ LET e == MapGet(pendingResults, resp.body.resultId)
           IN  /\ e.voiceVerified = FALSE
               /\ e.sessionId = resp.req.sessionId
               /\ e.scanData = resp.req.scanData
        /\ IsPendingAnswer(resp)

\* C10 witness: a submit was accepted more than five minutes into the run,
\* before the due timer callback ran, so that the cleanup in POST had the
\* new entry and possibly expired ones to go through
C10_Witness ==
    /\ resp.op = "POST"
    /\ resp.code = 200
    /\ now > FiveMinutes
    /\ now >= nextSweep
    /\ MapHas(pendingResults, resp.body.resultId)
    /\ calls >= 2

\* some stored entry is older than five minutes
SomeExpiredPending ==
    \E i \in 1..Len(pendingResults) : IsExpired(pendingResults[i].val.createdAt, now)

SomeExpiredVerified ==
    \E i \in 1..Len(verifiedResults) : IsExpired(verifiedResults[i].val.verifiedAt, now)

\* C11: with the timer running (LiveSpec) and whatever the callers do,
\* whenever pending entries created more than five minutes ago or verified
\* entries verified more than five minutes ago are stored, a later state
\* stores none of them.
C11_ExpiredEventuallySwept ==
    /\ SomeExpiredPending ~> ~SomeExpiredPending
    /\ SomeExpiredVerified ~> ~SomeExpiredVerified

\* C11 witness: the timer callback has just run, more than five minutes into
\* the run, and the verified entry that was released earlier is gone without
\* having been discarded
C11_Witness ==
    /\ resp = NoResponse
    /\ now > FiveMinutes
    /\ nextSweep > now
    /\ lastRelease.key # NoId
    /\ ~MapHas(verifiedResults, lastRelease.key)
    /\ ~MapHas(pendingResults, lastRelease.key)

----------------------------------------------------------------------------
(* Properties of a capture run.  settled is the promise the caller awaits: *)
(* resolved is the run reporting success, rejected its reporting failure.  *)

\* the run reported success / failure
Succeeded == settled.state = "resolved"

Failed == settled.state = "rejected"

\* C12 as stated: a back-side run that reports success otherwise than on a
\* response with a terminal status (which sets hasReceivedSuccess) reports
\* it with a response of at least 4 buffered frames and 2 of the 3 feature
\* flags; so a run of responses with 1 flag and 5 frames never succeeds.
C12_BackSuccessNeedsPredicate ==
    (side = "back" /\ Succeeded /\ ~hasReceivedSuccess) => BackPredicate(settled.value)

\* C13 as stated: a front-side run that reports success otherwise than on
\* a response with a terminal status reports it with a response of at least
\* 4 buffered frames whose chip and bank_logo flags are both true; so a run
\* of {chip: true, bank_logo: false, 5 frames} responses never succeeds.
C13_FrontSuccessNeedsPredicate ==
    (side \in {"front", "frontLegacy"} /\ Succeeded) =>
        \/ FrontPredicate(settled.value)
        \/ HasTerminalStatus(settled.value)
        \/ IsLegacyFinal(settled.value)

SettledByStatus == hasReceivedSuccess /\ Succeeded /\ HasTerminalStatus(settled.value)

\* C15: once a response with status success or already_completed has
\* settled the run, no later step of the run settles it again, calls
\* setCurrentPhase or setErrorMessage, or changes the flags and the tracked
\* response of the run.
C15_LateResponsesDiscarded ==
    [][(SettledByStatus /\ ~CallerResumes) =>
           UNCHANGED <<settled, currentPhase, phaseCalls, errorMessage, isComplete,
                       hasReceivedSuccess, lastApiResponse, successfulFramesCount>>]_vars

\* C16: in every state in which the run is settled, neither the poll
\* interval nor the overall timeout is pending.
C16_TimersCancelledAtEnd ==
    settled.state # "pending" => ~captureIntervalRef /\ ~timeoutId

\* the run has reached a terminal state
TerminalReached == settled.state # "pending" \/ isComplete \/ hasReceivedSuccess

\* the success predicate of a side
SidePredicate(s, r) == IF s = "back" THEN BackPredicate(r) ELSE FrontPredicate(r)

\* the two messages of the timeout with no successful response
NetworkFailures ==
    { "Timeout: No successful API responses received",
      "Timeout: Network Error No successful API responses received",
      "Timeout: Network Error or No successful API responses received" }

\* C17: the timeout callback runs 30 s after the start of polling; it changes
\* nothing when a terminal state has been reached; otherwise it rejects as a
\* network failure when no successful response was counted, and else it
\* resolves with the last good response if that response satisfies the
\* success predicate of the side and rejects if it does not.
C17_TimeoutOutcome ==
    [][Timeout =>
          /\ clock' = TimeoutMs
          /\ IF TerminalReached
             THEN UNCHANGED <<settled, currentPhase, phaseCalls, errorMessage>>
             ELSE IF successfulFramesCount = 0
             THEN settled'.state = "rejected" /\ settled'.error \in NetworkFailures
             ELSE IF SidePredicate(side, lastApiResponse)
             THEN settled' = [state |-> "resolved", value |-> lastApiResponse,
                              error |-> ""]
             ELSE settled'.state = "rejected" /\ settled'.error \notin NetworkFailures]_vars

\* C18: when the grace window after the frame limit has elapsed, no request
\* is outstanding and the camera is still there, the run has settled or
\* reached a terminal state: it does not stay pending.
C18_SettlesAfterGrace ==
    (pc = "polling" /\ GraceOver /\ inFlight = 0 /\ videoAvailable)
        => TerminalReached

SensitiveFields == {"encrypted_data", "encrypted_card_data"}

\* C20: the value a back-side run resolves with carries neither
\* encrypted_data nor encrypted_card_data.
C20_BackSuccessSanitized ==
    (side = "back" /\ Succeeded) => DOMAIN settled.value \cap SensitiveFields = {}

\* C21: the body the back-side caller posts to the Result Gate carries the
\* sessionId of the scan and, as scanData, a classification response as the
\* endpoint returned it, with its encrypted_data.
C21_RawPayloadSubmitted ==
    posted # NoPost =>
        /\ posted.sessionId = ScanSessionId
        /\ posted.scanData \in BackResponses
        /\ "encrypted_data" \in DOMAIN posted.scanData

\* C26: when the caller of a capture run has got the outcome of the run,
\* whatever it is, the flashlight has been turned off and the zoom reset.
C26_FlashRestoredOnExit ==
    callerOutcome # "awaiting" => ~flash

----------------------------------------------------------------------------
(* Properties of the scan session.                                         *)

\* the outcomes of a capture run that are failures of the side
FailureOutcomes == {"failed", "fake-card", "no-status"}

\* the step is the caller of run i getting the failure o of its run while no
\* stop was requested and no back success was taken
FailureProcessed(i, o) ==
    /\ o \in FailureOutcomes
    /\ ~stopRequestedRef
    /\ ~backSuccessReceivedRef
    /\ RunSettles(i, o, FALSE)

\* C22: every step in which the page gets the failure of a side (a rejected
\* run, a fake card, a back result without a final status) makes attemptCount
\* one more than it was.
C22_FailureCountsOnce ==
    [][\A i \in 1..MaxRuns, o \in FailureOutcomes :
          FailureProcessed(i, o) => attemptCount' = attemptCount + 1]_vars

\* the terminal state of a session that used up its attempts
InMaxAttemptsState == maxAttemptsReached /\ pagePhase = "max-attempts-reached"

\* C23: a step that takes attemptCount to MAX_ATTEMPTS puts the session in
\* the max-attempts state, and the session enters that state once: as long
\* as the session id is the same the state is not left, and no further
\* step counts an attempt or enters it again.
C23_MaxAttemptsOnce ==
    [][/\ (attemptCount < MAX_ATTEMPTS /\ attemptCount' >= MAX_ATTEMPTS)
            => InMaxAttemptsState'
       /\ (InMaxAttemptsState /\ sessionIdState' = sessionIdState)
            => /\ InMaxAttemptsState'
               /\ attemptCount' = attemptCount
               /\ reports' = reports]_vars

\* the step takes attemptCount to the ceiling
ReachesMaxAttempts == attemptCount < MAX_ATTEMPTS /\ attemptCount' >= MAX_ATTEMPTS

\* C24: a step that takes attemptCount to MAX_ATTEMPTS sends exactly one
\* failure report, for the session, with the operation that failed and the
\* reason prefixed "MAX RETRY REACHED".
C24_ExhaustionReportedOnce ==
    [][ReachesMaxAttempts =>
          /\ Len(reports') = Len(reports) + 1
          /\ SubSeq(reports', 1, Len(reports)) = reports
          /\ reports'[Len(reports')].sessionId = sessionIdState
          /\ reports'[Len(reports')].operation \in {"front", "back"}
          /\ reports'[Len(reports')].operation = currentOperation'
          /\ reports'[Len(reports')].reason[1] = "MAX RETRY REACHED"]_vars

\* no scan is running and one can be started (page.js:982, 1196): for the
\* front from "idle", for the back from "ready-for-back"
RetryableIdle ==
    /\ pagePhase \in {"idle", "ready-for-back"}
    /\ ~maxAttemptsReached
    /\ ~detectionActive

\* the step completes a retry: the timer of handleTryAgain, or
\* handleFakeCardRetry below the ceiling
RetryCompletes ==
    \/ TryAgainTimer
    \/ handleFakeCardRetry /\ ~maxAttemptsReached'

\* C25: the step that completes the retry of a failure counted below the
\* ceiling ends in a retryable idle state in which sessionId and attemptCount
\* are what they were right after the failure was counted.
C25_RetryPreservesSession ==
    [][(RetryCompletes /\ counted' # NoCount) =>
          /\ RetryableIdle'
          /\ sessionIdState' = counted'.sessionId
          /\ attemptCount' = counted'.attemptCount]_vars

----------------------------------------------------------------------------
(* Properties of the camera negotiator and of initializeCamera.  The       *)
(* negotiator is findBestCameraForScan of the current copy, which          *)
(* initializeCamera calls when the permission is not refused and the       *)
(* device is not an iOS device.                                            *)

\* initializeCamera of the current copy runs the negotiator for the back side
NegotiatesBack ==
    /\ copy = "current"
    /\ scanSide = "back"
    /\ Negotiate("granted", FALSE)

\* the candidates of the back side whose flash verifies
Verifying ==
    {c \in Range(TargetCameras(devices, "back")) :
        ValidDeviceId(c) /\ checkCameraTorchSupport(c)}

\* C27: when the flash of at least one back-side candidate verifies, the
\* negotiator returns a candidate whose flash verifies and no verifying
\* candidate has a higher score than the one returned.
C27_BestVerifyingCandidate ==
    [][(NegotiatesBack /\ Verifying # {}) =>
          /\ bestCamera'.hasTorch
          /\ bestCamera'.error = ""
          /\ \E c \in Verifying :
                /\ c.deviceId = bestCamera'.deviceId
                /\ \A d \in Verifying :
                      scoreCameraForScanning(d) <= scoreCameraForScanning(c)]_vars

\* C27 witness: the negotiator returned a verifying candidate although a
\* candidate of higher score, enumerated before it, did not verify and one
\* of lower score, enumerated before it too, did.
C27_Witness ==
    /\ copy = "current"
    /\ scanSide = "back"
    /\ camPc = "open"
    /\ bestCamera.hasTorch
    /\ bestCamera.deviceId = 3
    /\ \E i, j \in 1..2 :
          /\ ~devices[i].torch
          /\ devices[i] \in Range(TargetCameras(devices, "back"))
          /\ scoreCameraForScanning(devices[i]) > scoreCameraForScanning(devices[3])
          /\ devices[j] \in Verifying
          /\ scoreCameraForScanning(devices[j]) < scoreCameraForScanning(devices[3])

\* C28: for a back-side scan the negotiator never returns the deviceId of
\* a device whose label names a telephoto or an ultra-wide lens.
C28_NoTelephotoNoUltraWide ==
    [][NegotiatesBack =>
          \A i \in DOMAIN devices :
              bestCamera'.deviceId = i =>
                  ~IsTelephoto(devices[i]) /\ ~IsUltraWide(devices[i])]_vars

\* the negotiator returned a camera of the device list without flash
ReturnedWithoutFlash ==
    /\ bestCamera'.error = ""
    /\ ~bestCamera'.hasTorch
    /\ devices # <<>>

\* C29: when there are back-side candidates, none verifies flash and TEST_MODE is off,
\* the negotiation fails with NO_TORCH_CAMERA and initializeCamera rejects
\* with that failure; a camera without flash is only returned with
\* TEST_MODE on, and then it is the first of the sorted candidates.
C29_NoTorchCameraReachesCaller ==
    [][/\ (/\ NegotiatesBack
           /\ TargetCameras(devices, "back") # <<>>
           /\ Verifying = {}
           /\ ~testMode) =>
              /\ bestCamera'.error = "NO_TORCH_CAMERA"
              /\ camPc' = "done"
              /\ thrown' = "NO_TORCH_CAMERA"
       /\ (NegotiatesBack /\ ReturnedWithoutFlash) =>
              /\ testMode
              /\ bestCamera'.deviceId = TargetCameras(devices, "back")[1].deviceId]_vars

\* the getUserMedia calls by facingMode that followed a failed open
Fallbacks == {i \in DOMAIN opens : opens[i] = "fallback"}

----------------------------------------------------------------------------
(* Properties of the Result Gate, continued.                               *)

\* the submission of session s stored last is still in pendingResults
NewestIsPending(s) ==
    \E i \in 1..Len(pendingResults) :
        /\ pendingResults[i].val.sessionId = s
        /\ \A j \in 1..Len(verifiedResults) :
              verifiedResults[j].val.sessionId = s =>
                  verifiedResults[j].val.createdAt < pendingResults[i].val.createdAt

\* C40: a GET by sessionId answers "pending" and releases nothing when the
\* submission of that session stored last is still pending.
C40_NewerPendingNotMasked ==
    [][\A s \in SessionIds :
          (GET(s, NoId) /\ NewestIsPending(s)) =>
              /\ resp'.found = NoId
              /\ resp'.body = GetPending("Voice verification not yet completed")]_vars

----------------------------------------------------------------------------
(* Properties of the scan session, continued.                              *)

\* C39: the failures counted for a session are not taken back while its
\* sessionId lasts, except by a stored success, and no scan is started in a session whose count has
\* reached MAX_ATTEMPTS: more attempts need a new sessionId.
C39_BudgetPerSession ==
    [][/\ (attemptCount' < attemptCount /\ pagePhase' # "back-complete") =>
              sessionIdState' # sessionIdState
       /\ (scans' > scans /\ sessionIdState' = sessionIdState) =>
              attemptCount < MAX_ATTEMPTS]_vars

\* C38: runs holds the capture runs that have not settled; the interval of
\* each is set, and its processFrame submits a frame whenever the shared
\* stop flag is clear.  While the flag is clear at most one run is alive.
C38_OneRunPolls == ~stopRequestedRef => Len(runs) <= 1

----------------------------------------------------------------------------
(* Properties of a capture run, continued.                                 *)

\* C37: a run goes on past the screen detection only after the answer
\* is_screen: false or the 500 "Screen detection model not available".
C37_OnlyModelUnavailablePasses ==
    [][\A answer \in ScreenAnswers :
          (ScreenDetect(answer) /\ pc' = "flashlight-off") =>
              answer \in {"real", "model-unavailable"}]_vars

\* C34: a run in its polling loop whose promise is still pending has its
\* timeout timer set and the timeout not yet behind it, so that the timer
\* settles it at the latest.
C34_PendingRunHasTimeout ==
    (pc = "polling" /\ settled = Pending) =>
        (timeoutId /\ clock <= TimeoutOf(side))

\* C35: when the back-side run has resolved and no stop was requested, the
\* caller posts the value to the Result Gate and counts no failure.
C35_ResolvedBackRunIsSuccess ==
    [][(/\ side = "back"
        /\ settled.state = "resolved"
        /\ ~stopRequested
        /\ CallerResumes) =>
           /\ callerOutcome' # "failure"
           /\ posted' = [sessionId |-> ScanSessionId, scanData |-> settled.value]]_vars

----------------------------------------------------------------------------
(* The bridge interceptor of utils/bridgeInterceptor.js: a wrapper around   *)
(* window.webkit.messageHandlers.ScanBridge.postMessage that holds a        *)
(* scan-complete message back while voice verification is pending.  The     *)
(* module exports initializeBridgeInterceptor, markVoicePending and         *)
(* releasePendingBridgeMessage; the page and the native shell call them and *)
(* post messages in any order.  originalPostMessage is set exactly when     *)
(* installed is, so it has no variable of its own.                          *)

\* how many messages the page posts
MaxPosts == 3

CompleteScanValues == {"true", "other", "absent"}

isScanCompletePayload(msg) == msg.parses /\ msg.complete_scan = "true"

\* the module variables after wrapBridge()
wrapBridge == installed' = (installed \/ bridgeInjected)

initializeBridgeInterceptor ==
    /\ IF installed
       THEN UNCHANGED <<installed, watcherTimer, voicePending>>
       ELSE /\ voicePending' = IF voicePending = "undefined" THEN "false" ELSE voicePending
            /\ wrapBridge
            /\ watcherTimer' = (watcherTimer \/ ~installed')
    /\ UNCHANGED <<bridgeInjected, pendingBridgePayload, native, posts>>

\* the callback of the watcher, every 200 ms
WatcherTick ==
    /\ watcherTimer
    /\ IF ~installed
       THEN wrapBridge /\ UNCHANGED watcherTimer
       ELSE watcherTimer' = FALSE /\ UNCHANGED installed
    /\ UNCHANGED <<bridgeInjected, voicePending, pendingBridgePayload, native, posts>>

\* the native shell injects the ScanBridge message handler
InjectBridge ==
    /\ ~bridgeInjected
    /\ bridgeInjected' = TRUE
    /\ UNCHANGED <<installed, watcherTimer, voicePending, pendingBridgePayload, native, posts>>

\* the page calls ScanBridge.postMessage(message): the wrapper when it is
\* installed, the native function otherwise
postMessage(message) ==
    /\ bridgeInjected
    /\ posts < MaxPosts
    /\ message.n = posts + 1
    /\ posts' = posts + 1
    /\ IF installed /\ isScanCompletePayload(message) /\ voicePending = "true"
       THEN /\ pendingBridgePayload' = message
            /\ UNCHANGED native
       ELSE /\ native' = Append(native, message)
            /\ UNCHANGED pendingBridgePayload
    /\ UNCHANGED <<bridgeInjected, installed, watcherTimer, voicePending>>

markVoicePending(isPending) ==
    /\ voicePending' = IF isPending THEN "true" ELSE "false"
    /\ UNCHANGED <<bridgeInjected, installed, watcherTimer, pendingBridgePayload, native, posts>>

releasePendingBridgeMessage ==
    /\ IF pendingBridgePayload = NoPayload \/ ~installed
       THEN UNCHANGED <<voicePending, native, pendingBridgePayload>>
       ELSE /\ voicePending' = "false"
            /\ native' = Append(native,
                    IF pendingBridgePayload.parses
                    THEN [pendingBridgePayload EXCEPT !.voice_verified = TRUE]
                    ELSE pendingBridgePayload)
            /\ pendingBridgePayload' = NoPayload
    /\ UNCHANGED <<bridgeInjected, installed, watcherTimer, posts>>

Messages ==
    {Message(parses, complete_scan, FALSE, n) :
        parses \in BOOLEAN, complete_scan \in CompleteScanValues, n \in 1..MaxPosts}

BridgeInit ==
    /\ GateAtRest /\ CaptureAtRest("back") /\ SessionAtRest /\ CameraAtRest
    /\ BridgeAtRest /\ LockAtRest /\ RecAtRest /\ VerifyAtRest

BridgeNext ==
    \/ initializeBridgeInterceptor /\ UNCHANGED notBridgeVars
    \/ WatcherTick /\ UNCHANGED notBridgeVars
    \/ InjectBridge /\ UNCHANGED notBridgeVars
    \/ (\E message \in Messages : postMessage(message))
       /\ UNCHANGED notBridgeVars
    \/ (\E isPending \in BOOLEAN : markVoicePending(isPending))
       /\ UNCHANGED notBridgeVars
    \/ releasePendingBridgeMessage /\ UNCHANGED notBridgeVars

BridgeSpec == BridgeInit /\ [][BridgeNext]_vars

(* Properties of the bridge interceptor. *)

\* initializeBridgeInterceptor has run: the wrapper is installed or the
\* watcher is waiting for the bridge
Initialized == installed \/ watcherTimer

\* C33: once the interceptor is initialized and while voice verification is
\* pending, a step hands a scan-complete message to the native postMessage
\* only when releasePendingBridgeMessage forwards the buffered message; the
\* page's own post of such a message never reaches the native layer.
C33_CompleteScanOnlyByRelease ==
    [][(/\ Initialized
        /\ voicePending = "true"
        /\ Len(native') > Len(native)
        /\ isScanCompletePayload(native'[Len(native')])) =>
           /\ pendingBridgePayload # NoPayload
           /\ pendingBridgePayload' = NoPayload]_vars

----------------------------------------------------------------------------
(* The capture lock of CameraUtils: captureFrame and captureFrameInternal   *)
(* share the module variable isCapturing; captureCroppedFrame rasterizes    *)
(* the guide area.  A rasterization is in flight from the call of           *)
(* canvas.toBlob until its callback runs.                                   *)

\* how many captures are requested
MaxCaptures == 5

\* captureFrameInternal: ready is false when a reference is null, the video
\* is not ready or has no dimensions, or drawing throws
captureFrameInternal(ready) ==
    IF ready
    THEN /\ isCapturing' = TRUE
         /\ frameBlobs' = frameBlobs + 1
    ELSE /\ isCapturing' = FALSE
         /\ UNCHANGED frameBlobs

captureFrame(ready) ==
    /\ captures < MaxCaptures
    /\ captures' = captures + 1
    /\ IF isCapturing
       THEN /\ waiting' = waiting + 1
            /\ UNCHANGED <<isCapturing, frameBlobs>>
       ELSE /\ captureFrameInternal(ready)
            /\ UNCHANGED waiting
    /\ UNCHANGED croppedBlobs

\* the 100 ms timer of a caller that found the lock taken
waitForCapture(ready) ==
    /\ waiting > 0
    /\ IF ~isCapturing
       THEN /\ captureFrameInternal(ready)
            /\ waiting' = waiting - 1
       ELSE UNCHANGED <<isCapturing, frameBlobs, waiting>>
    /\ UNCHANGED <<croppedBlobs, captures>>

\* the callback of canvas.toBlob in captureFrameInternal
FrameBlob ==
    /\ frameBlobs > 0
    /\ isCapturing' = FALSE
    /\ frameBlobs' = frameBlobs - 1
    /\ UNCHANGED <<croppedBlobs, waiting, captures>>

captureCroppedFrame(ready) ==
    /\ captures < MaxCaptures
    /\ captures' = captures + 1
    /\ croppedBlobs' = IF ready THEN croppedBlobs + 1 ELSE croppedBlobs
    /\ UNCHANGED <<isCapturing, frameBlobs, waiting>>

\* the callback of canvas.toBlob in captureCroppedFrame
CroppedBlob ==
    /\ croppedBlobs > 0
    /\ croppedBlobs' = croppedBlobs - 1
    /\ UNCHANGED <<isCapturing, frameBlobs, waiting, captures>>

\* also the last statement of cleanupCamera
resetCaptureState ==
    /\ isCapturing' = FALSE
    /\ UNCHANGED <<frameBlobs, croppedBlobs, waiting, captures>>

LockInit ==
    /\ GateAtRest /\ CaptureAtRest("back") /\ SessionAtRest /\ CameraAtRest
    /\ BridgeAtRest /\ LockAtRest /\ RecAtRest /\ VerifyAtRest

LockNext ==
    \/ (\E ready \in BOOLEAN : captureFrame(ready)) /\ UNCHANGED notLockVars
    \/ (\E ready \in BOOLEAN : waitForCapture(ready)) /\ UNCHANGED notLockVars
    \/ FrameBlob /\ UNCHANGED notLockVars
    \/ (\E ready \in BOOLEAN : captureCroppedFrame(ready)) /\ UNCHANGED notLockVars
    \/ CroppedBlob /\ UNCHANGED notLockVars
    \/ resetCaptureState /\ UNCHANGED notLockVars

LockSpec == LockInit /\ [][LockNext]_vars

(* Properties of the capture lock. *)

\* C31: at most one rasterization is in flight at any time.
C31_OneRasterizationInFlight == frameBlobs + croppedBlobs <= 1

----------------------------------------------------------------------------
(* The voice recorder: startRecording(currentRetry) of the voice            *)
(* registration and verification popups, which are the same code.  A call   *)
(* awaits getUserMedia; an audio-source conflict schedules the next call on *)
(* a timer.  The record button is disabled while isRetrying is set.         *)

\* how often the user presses the record button
MaxClicks == 2

\* how long the clock runs, in seconds
MaxRecSeconds == 7

\* if (nextRetry <= 3)
MaxRetries == 3

\* const delay = nextRetry * 1000
RetryStep == 1000

MayRetryAlways(nextRetry) == TRUE

MayRetry(nextRetry) == nextRetry <= MaxRetries

RetryDelayFlat(nextRetry) == RetryStep

RetryDelay(nextRetry) == nextRetry * RetryStep

\* what the await of getUserMedia ends with
MicrophoneResults ==
    {"ok", "NotReadableError", "Could not start audio source", "NotAllowedError",
     "NotFoundError", "other"}

IsAudioSourceConflict(result) ==
    result \in {"NotReadableError", "Could not start audio source"}

\* startRecording up to its await of getUserMedia
startRecording(currentRetry) ==
    /\ recError' = ""
    /\ isRetrying' = FALSE
    /\ recInFlight' = Append(recInFlight, currentRetry)

handleRecordClick ==
    /\ ~isRetrying
    /\ clicks < MaxClicks
    /\ clicks' = clicks + 1
    /\ IF isRecording
       THEN /\ isRecording' = FALSE
            /\ UNCHANGED <<recError, isRetrying, recInFlight, retryAttempt>>
       ELSE /\ retryAttempt' = 0
            /\ startRecording(0)
            /\ UNCHANGED isRecording
    /\ UNCHANGED <<retryTimers, recClock, lastFailed>>

\* the rest of startRecording, from the return of getUserMedia
MicrophoneAnswers(i, result) ==
    LET currentRetry == recInFlight[i]
        nextRetry == currentRetry + 1
    IN  /\ recInFlight' = [j \in 1..(Len(recInFlight) - 1) |->
                              IF j < i THEN recInFlight[j] ELSE recInFlight[j + 1]]
        /\ IF result = "ok"
           THEN /\ isRecording' = TRUE
                /\ UNCHANGED <<recError, isRetrying, retryAttempt, retryTimers, lastFailed>>
           ELSE IF result \in {"NotAllowedError", "NotFoundError"}
           THEN /\ recError' = result
                /\ isRetrying' = FALSE
                /\ retryAttempt' = 0
                /\ UNCHANGED <<isRecording, retryTimers, lastFailed>>
           ELSE IF IsAudioSourceConflict(result)
           THEN /\ lastFailed' = currentRetry
                /\ IF MayRetry(nextRetry)
                   THEN /\ isRetrying' = TRUE
                        /\ retryAttempt' = nextRetry
                        /\ recError' = "retrying"
                        /\ retryTimers' = Append(retryTimers,
                               [retry |-> nextRetry, set |-> recClock,
                                due |-> recClock + RetryDelay(nextRetry)])
                   ELSE /\ recError' = "fatal"
                        /\ isRetrying' = FALSE
                        /\ retryAttempt' = 0
                        /\ UNCHANGED retryTimers
                /\ UNCHANGED isRecording
           ELSE /\ recError' = "other"
                /\ UNCHANGED <<isRecording, isRetrying, retryAttempt, retryTimers, lastFailed>>
        /\ UNCHANGED <<recClock, clicks>>

\* the timer of a retry comes due
RetryTimer(i) ==
    /\ retryTimers[i].due <= recClock
    /\ retryTimers' = [j \in 1..(Len(retryTimers) - 1) |->
                          IF j < i THEN retryTimers[j] ELSE retryTimers[j + 1]]
    /\ startRecording(retryTimers[i].retry)
    /\ UNCHANGED <<isRecording, retryAttempt, recClock, clicks, lastFailed>>

\* a second passes; a timer that is due runs first
RecTick ==
    /\ recClock < MaxRecSeconds * 1000
    /\ \A i \in 1..Len(retryTimers) : retryTimers[i].due > recClock
    /\ recClock' = recClock + 1000
    /\ UNCHANGED <<recInFlight, retryTimers, isRetrying, retryAttempt, isRecording,
                   recError, clicks, lastFailed>>

RecInit ==
    /\ GateAtRest /\ CaptureAtRest("back") /\ SessionAtRest /\ CameraAtRest
    /\ BridgeAtRest /\ LockAtRest /\ RecAtRest /\ VerifyAtRest

RecNext ==
    \/ handleRecordClick /\ UNCHANGED notRecVars
    \/ (\E i \in 1..Len(recInFlight), result \in MicrophoneResults :
            MicrophoneAnswers(i, result)) /\ UNCHANGED notRecVars
    \/ (\E i \in 1..Len(retryTimers) : RetryTimer(i)) /\ UNCHANGED notRecVars
    \/ RecTick /\ UNCHANGED notRecVars

RecSpec == RecInit /\ [][RecNext]_vars

(* Properties of the voice recorder. *)

----------------------------------------------------------------------------
(* The release of a scan: page.js stores the successful back-side result in *)
(* the Result Gate, the voice challenge succeeds, and                       *)
(* handleVoiceVerificationSuccess marks the result verified and reads it    *)
(* back.  The requests run the handlers of the gate; the native shell polls *)
(* window.getScanStatus meanwhile.                                          *)

\* the results the page stores: the test before the POST lets a result with
\* status "success" or "already_completed" through
BackResults ==
    {StatusPayload, [status |-> "already_completed", encrypted_data |-> "enc1"]}

\* the back-side run has returned a result; the page stores it
StoreBackResult(finalResult) ==
    /\ verifyPc = "scanned"
    /\ POST(TRUE, "s1", finalResult, "m1")
    /\ calls' = calls + 1
    /\ IF IsTrue(resp'.body, "success")
       THEN /\ secureResultId' = resp'.body.resultId
            /\ scanStatus' = [complete_scan |-> FALSE,
                              status |-> "pending_voice_verification",
                              message |-> "Awaiting voice verification"]
            /\ verifyPhase' = "back-complete"
            /\ verifyPc' = "awaiting-voice"
       ELSE /\ verifyPhase' = "error"
            /\ verifyPc' = "done"
            /\ UNCHANGED <<secureResultId, scanStatus>>

\* handleVoiceVerificationSuccess up to the answer of the PUT
handleVoiceVerificationSuccess(verificationId) ==
    /\ verifyPc = "awaiting-voice"
    /\ IF secureResultId = NoId
       THEN /\ verifyPc' = "done"
            /\ UNCHANGED <<gateVars, verifyPhase>>
       ELSE /\ PUT(TRUE, secureResultId, verificationId)
            /\ calls' = calls + 1
            /\ IF IsTrue(resp'.body, "success")
               THEN /\ verifyPc' = "verified"
                    /\ UNCHANGED verifyPhase
               ELSE /\ verifyPhase' = "error"
                    /\ verifyPc' = "done"
    /\ UNCHANGED <<secureResultId, scanStatus>>

\* the rest of handleVoiceVerificationSuccess: the GET by resultId and what
\* is made of its answer
RetrieveVerified ==
    /\ verifyPc = "verified"
    /\ GET(NoString, secureResultId)
    /\ calls' = calls + 1
    /\ verifyPc' = "done"
    /\ LET finalData == resp'.body
       IN  IF IsTrue(finalData, "success") /\ Is(finalData, "status", "verified")
           THEN /\ verifyPhase' = "results"
                /\ scanStatus' = Merge([complete_scan |-> TRUE, status |-> "verified",
                                        voice_verified |-> TRUE], finalData)
                /\ secureResultId' = NoId
           ELSE /\ verifyPhase' = "error"
                /\ UNCHANGED <<secureResultId, scanStatus>>

\* window.getScanStatus, the poll of the native shell
getScanStatus ==
    /\ calls < MaxCalls
    /\ GET("s1", NoId)
    /\ calls' = calls + 1
    /\ scanStatus' = Merge([complete_scan |-> IsTrue(resp'.body, "complete_scan")],
                           resp'.body)
    /\ UNCHANGED <<verifyPc, verifyPhase, secureResultId>>

VerifyInit ==
    /\ GateAtRest /\ CaptureAtRest("back") /\ SessionAtRest /\ CameraAtRest
    /\ BridgeAtRest /\ LockAtRest /\ RecAtRest
    /\ verifyPc = "scanned"
    /\ verifyPhase = "back-scanning"
    /\ secureResultId = NoId
    /\ scanStatus = [complete_scan |-> FALSE, status |-> "idle",
                     message |-> "Scan not started"]

VerifyNext ==
    \/ (\E finalResult \in BackResults : StoreBackResult(finalResult))
       /\ UNCHANGED notVerifyVars
    \/ (\E verificationId \in VerificationIds :
            handleVoiceVerificationSuccess(verificationId))
       /\ UNCHANGED notVerifyVars
    \/ RetrieveVerified /\ UNCHANGED notVerifyVars
    \/ getScanStatus /\ UNCHANGED notVerifyVars
    \/ Sweep /\ UNCHANGED <<notVerifyVars, verifyVars>>
    \/ TickToSweep /\ UNCHANGED <<notVerifyVars, verifyVars>>

VerifySpec == VerifyInit /\ [][VerifyNext]_vars

(* Properties of the release of a scan. *)

\* C36: once the back-side result is stored and the voice challenge has
\* succeeded, the page is not in the error phase while the gate holds the
\* verified result.
C36_NoErrorWhileVerifiedHeld ==
    verifyPhase = "error" => ~MapHas(verifiedResults, secureResultId)

====
